---- MODULE Spec2Model ----
(***************************************************************************)
(* A model of snip_gen: the seed Run Controller (gen_seed.py), the         *)
(* Synthesis Agent (gen_snippet.py), the Generation Client                 *)
(* (llm_handler.py), the Verification Oracle Adapter (verify_code.py),     *)
(* the Coverage Model (typehints.py), the syntax repair (fix/fix_def.py)   *)
(* and the main of each command.                                           *)
(*                                                                         *)
(* Text, file names included, is a sequence of one-character strings.  The *)
(* file system is a function from the paths that exist to their entries.   *)
(***************************************************************************)
EXTENDS Integers, Sequences, FiniteSets, TLC

VARIABLES
    mode,            \* "file" | "function": args.target of the seed command
    max_retries,     \* args.max_retries
    report,          \* coverage_data: the report that load_coverage returned, in order
    run,             \* number of the current process run (the file system outlives a run)
    pc,              \* control position of the process
    exc,             \* "none", or the exception that ended the process
    exit_code,       \* -1 while running, else the code given to sys.exit
    fs,              \* the file system: path -> entry, for the paths that exist
    targets,         \* low_coverage_files / targeted_functions of this run
    ti,              \* index of the target the controller is at (1-based)
    success,         \* generate_files / handle_function: success
    failure,         \* generate_files / handle_function: failure
    skipped,         \* targets left by "continue" without a count (history)
    target_file,     \* generate_code: target_file
    output_file,     \* generate_code: output_file
    system_prompts,  \* generate_code: system_prompts
    current_prompt,  \* generate_code: current_prompt
    attempt,         \* generate_code: attempt (loop index of either loop)
    generated_code,  \* generate_code: generated_code (also its return value)
    lint,            \* generate_code: (lint_success, lint_stderr)
    checker,         \* verify_code: result, the finished checker process
    messages,        \* invoke_llm: messages
    llm_attempt,     \* completion: attempt
    content,         \* invoke_llm: content, what completion returned
    requests,        \* the requests of the current completion call (history)
    slept,           \* the sleeps of the current completion call, in order (history)
    calls,           \* the invoke_llm / verify_code calls of the current generate_code call (history)
    outcomes,        \* how each attempt of the current generate_code call ended (history)
    texts,           \* the texts the generation service answers with in this run
    openroad,        \* whether shutil.which("openroad") found the checker
    accepted,        \* output paths whose processing met an oracle acceptance, with the text (history)
    command,         \* "seed" | "snippet" | "verify": the subcommand of the process
    argv,            \* the parsed command line (argparse.Namespace)
    raw_data,        \* load_coverage: raw_data, what json.load gives for the report file
    checker_env,     \* verify_code: the environment given to the checker process
    kept,            \* the attempt and failed-attempt files the earlier runs left (history)
    fix,             \* fix_def: code, the rule the loop is at and subs; the text it was given
    sanitized        \* sanitize_filename: the name given, s, and s sanitized once more

vars == << mode, max_retries, report, run, pc, exc, exit_code, fs, targets, ti,
           success, failure, skipped, target_file, output_file, system_prompts,
           current_prompt,
           attempt, generated_code, lint, checker, checker_env, messages, llm_attempt, content,
           requests, slept, calls, outcomes, texts, openroad, accepted,
           command, argv, raw_data, kept, fix, sanitized >>

-----------------------------------------------------------------------------
(* Bounds of the model *)

MaxRetriesBound == 2
MaxRuns == 2
MaxPieces == 4

(* Constants of the program *)

MAX_ATTEMPTS == 6
BASE_WAIT == 60
EXPONENTIAL_FACTOR == 6
MAX_FILE_SIZE_BYTES == 100 * 1024
MAX_FILENAME_LENGTH == 100
COVERAGE_MAX == 100
DEFAULT_FILE_EXTENSION == << ".", "d", "e", "f" >>
\* The backquote character; a TLA+ string cannot hold it, so it is written "bq".
BQ == "bq"
\* The code fence, three backquotes
FENCE == << BQ, BQ, BQ >>
CODEBLOCK_STRIPPED_PREFIX == << FENCE \o << "d", "e", "f" >>, FENCE >>

-----------------------------------------------------------------------------
(* Text *)

Whitespace == { " ", "\n", "\t" }

RECURSIVE LStrip(_)
LStrip(s) == IF s # << >> /\ Head(s) \in Whitespace THEN LStrip(Tail(s)) ELSE s

RECURSIVE RStrip(_)
RStrip(s) ==
    IF s # << >> /\ s[Len(s)] \in Whitespace THEN RStrip(SubSeq(s, 1, Len(s) - 1)) ELSE s

\* str.strip()
Strip(s) == RStrip(LStrip(s))

\* str.startswith / str.endswith
StartsWith(s, p) == Len(s) >= Len(p) /\ SubSeq(s, 1, Len(p)) = p

EndsWith(s, p) == Len(s) >= Len(p) /\ SubSeq(s, Len(s) - Len(p) + 1, Len(s)) = p

DigitChars == << "0", "1", "2", "3", "4", "5", "6", "7", "8", "9" >>

\* str(n) of a non-negative integer, as in an f-string
RECURSIVE IntToStr(_)
IntToStr(n) ==
    IF n < 10 THEN << DigitChars[n + 1] >>
    ELSE IntToStr(n \div 10) \o << DigitChars[(n % 10) + 1] >>

RECURSIVE Pow(_, _)
Pow(b, e) == IF e = 0 THEN 1 ELSE b * Pow(b, e - 1)

\* An optional text: None, or a str
None == [isNone |-> TRUE, val |-> << >>]

Some(s) == [isNone |-> FALSE, val |-> s]

\* bool(x) of an optional text
Truthy(x) == ~x.isNone /\ x.val # << >>

-----------------------------------------------------------------------------
(* Paths *)

MkPath(d, n) == [dir |-> d, name |-> n]

RECURSIVE LastDot(_)
\* name.rfind("."), 1-based, 0 when there is none
LastDot(n) ==
    IF n = << >> THEN 0
    ELSE IF n[Len(n)] = "." THEN Len(n)
    ELSE LastDot(SubSeq(n, 1, Len(n) - 1))

\* PurePath.suffix
Suffix(n) ==
    LET i == LastDot(n)
    IN  IF 1 < i /\ i < Len(n) THEN SubSeq(n, i, Len(n)) ELSE << >>

\* PurePath.stem
Stem(n) ==
    LET i == LastDot(n)
    IN  IF 1 < i /\ i < Len(n) THEN SubSeq(n, 1, i - 1) ELSE n

\* PurePath.with_suffix
WithSuffix(p, sfx) == MkPath(p.dir, Stem(p.name) \o sfx)

\* output_file.with_suffix(f".{attempt}{output_file.suffix}")
AttemptFile(out, i) == WithSuffix(out, << "." >> \o IntToStr(i) \o Suffix(out.name))

\* a failed name that leaves the attempt index out
FailedFile_NoIndex(out, i) ==
    WithSuffix(out, << ".", "f", "a", "i", "l", "e", "d" >> \o Suffix(out.name))

\* output_file.with_suffix(f".failed.{attempt}{output_file.suffix}")
FailedFile(out, i) ==
    WithSuffix(out, << ".", "f", "a", "i", "l", "e", "d", "." >> \o IntToStr(i) \o Suffix(out.name))

-----------------------------------------------------------------------------
(* File system *)

RegularFile(data, size) == [kind |-> "file", data |-> data, to |-> MkPath("", << >>), size |-> size]

SymLink(p) == [kind |-> "link", data |-> << >>, to |-> p, size |-> 0]

\* os.path.lexists
LExists(f, p) == p \in DOMAIN f

\* the path an open or a stat of p lands on (one level of link)
Resolve(f, p) == IF LExists(f, p) /\ f[p].kind = "link" THEN f[p].to ELSE p

\* Path.exists
Exists(f, p) == LExists(f, Resolve(f, p))

\* Path.open("w").write(data): creates or truncates
FsWrite(f, p, data) ==
    LET q == Resolve(f, p)
    IN  [x \in DOMAIN f \cup {q} |-> IF x = q THEN RegularFile(data, Len(data)) ELSE f[x]]

\* Path.unlink
FsRemove(f, p) == [x \in DOMAIN f \ {p} |-> f[x]]

\* Path.rename on POSIX: replaces the destination
FsRename(f, a, b) ==
    [x \in (DOMAIN f \ {a}) \cup {b} |-> IF x = b THEN f[a] ELSE f[x]]

\* Path.symlink_to: the path itself becomes the link
FsSymlink(f, p, to) == [x \in DOMAIN f \cup {p} |-> IF x = p THEN SymLink(to) ELSE f[x]]

-----------------------------------------------------------------------------
(* Generation Client: llm_handler.py *)

\* a retry loop that runs one request too many
CompletionLoopRuns_OffByOne(i) == i <= MAX_ATTEMPTS

\* range(MAX_ATTEMPTS) of completion
CompletionLoopRuns(i) == i < MAX_ATTEMPTS

\* a backoff that multiplies where the code raises to a power
BackoffDelay_Linear(i) == BASE_WAIT * (EXPONENTIAL_FACTOR * i)

\* delay = BASE_WAIT * (EXPONENTIAL_FACTOR**attempt)
BackoffDelay(i) == BASE_WAIT * Pow(EXPONENTIAL_FACTOR, i)

\* a completion that reads the last choice of the response
CompletionResult_LastChoice(resp) ==
    IF resp.choices # << >> /\ ~resp.choices[Len(resp.choices)].isNone
    THEN resp.choices[Len(resp.choices)] ELSE None

\* what completion returns for a response that is no exception: the content of
\* the first choice when there is one and it is a str, else None.  A choice is
\* an optional text: None stands for a missing message or a content that is no str.
CompletionResult(resp) ==
    IF resp.choices # << >> /\ ~resp.choices[1].isNone THEN resp.choices[1] ELSE None

\* a prefix loop without the break: every prefix that matches is removed in turn
RECURSIVE StripFirstPrefix_EveryPrefix(_, _)
StripFirstPrefix_EveryPrefix(text, prefixes) ==
    IF prefixes = << >> THEN text
    ELSE IF StartsWith(text, Head(prefixes))
         THEN StripFirstPrefix_EveryPrefix(
                  Strip(SubSeq(text, Len(Head(prefixes)) + 1, Len(text))), Tail(prefixes))
         ELSE StripFirstPrefix_EveryPrefix(text, Tail(prefixes))

\* the prefix loop of invoke_llm: only the first prefix that matches is removed
RECURSIVE StripFirstPrefix(_, _)
StripFirstPrefix(text, prefixes) ==
    IF prefixes = << >> THEN text
    ELSE IF StartsWith(text, Head(prefixes))
         THEN Strip(SubSeq(text, Len(Head(prefixes)) + 1, Len(text)))
         ELSE StripFirstPrefix(text, Tail(prefixes))

\* the post-processing of invoke_llm on a non-empty content
PostProcess(raw) ==
    LET c1 == Strip(raw)
        c2 == StripFirstPrefix(c1, CODEBLOCK_STRIPPED_PREFIX)
    IN  IF EndsWith(c2, FENCE) THEN Strip(SubSeq(c2, 1, Len(c2) - 3)) ELSE c2

\* what invoke_llm returns for the content completion returned
InvokeResult(returned) == IF Truthy(returned) THEN PostProcess(returned.val) ELSE << >>

\* the messages of invoke_llm: the system prompts, then the user prompt
BuildMessages(systems, prompt) == [system |-> systems, user |-> prompt]

\* The service answers that are no exception, for the texts the service has:
\* one choice with a text, no choice, and a first choice that holds no text
OkResponses(contents) ==
    { [choices |-> << Some(c) >>] : c \in contents }
        \cup { [choices |-> << >>], [choices |-> << None, Some(<< "A" >>) >>] }

-----------------------------------------------------------------------------
(* Verification Oracle Adapter: verify_code.py *)

\* a result handling that also takes any text on standard error for a failure
HandleResult_QuietOnly(result) ==
    [success |-> result.returncode = 0 /\ Strip(result.stderr) = << >>,
     stderr |-> IF Strip(result.stdout) # << >> THEN Strip(result.stdout)
                ELSE Strip(result.stderr)]

\* _handle_result: (returncode == 0, stdout.strip() or stderr.strip())
HandleResult(result) ==
    LET stdout == Strip(result.stdout)
        stderr == Strip(result.stderr)
        res == IF stdout # << >> THEN stdout ELSE stderr
    IN  [success |-> result.returncode = 0, stderr |-> res]

\* The checker processes of the model: exit status and the two streams
OracleResults ==
    { [returncode |-> rc, stdout |-> o, stderr |-> e] :
        rc \in {0, 1},
        o \in { << >>, << "o", "\n" >> },
        e \in { << "\n" >>, << "e", "\n" >> } }

\* the working directory of the process
CWD == "/work"

\* the directories of the model that are absolute
AbsoluteDirs == { "/pdk" }

\* str(p.resolve()): the absolute path of what p lands on, as a text whose
\* directory part is one piece
AbsoluteText(f, p) ==
    LET q == Resolve(f, p)
    IN  (IF q.dir \in AbsoluteDirs THEN << >> ELSE << CWD, "/" >>) \o << q.dir, "/" >> \o q.name

RECURSIVE JoinSpaces_NoSeparator(_)
\* a join that puts nothing between the texts
JoinSpaces_NoSeparator(ts) ==
    IF ts = << >> THEN << >> ELSE Head(ts) \o JoinSpaces_NoSeparator(Tail(ts))

RECURSIVE JoinSpaces(_)
\* " ".join(ts)
JoinSpaces(ts) ==
    IF ts = << >> THEN << >>
    ELSE IF Len(ts) = 1 THEN Head(ts)
    ELSE Head(ts) \o << " " >> \o JoinSpaces(Tail(ts))

\* env= of the subprocess.run of verify_code: the whole environment of the checker
CheckerEnvironment(f, file, library_files) ==
    [DEF_FILE |-> AbsoluteText(f, file),
     LEF_FILES |-> JoinSpaces([i \in 1..Len(library_files) |->
                                  AbsoluteText(f, library_files[i])])]

\* write_code: the text, with a newline added when it ends with none
WriteCode(f, p, code) ==
    FsWrite(f, p, IF EndsWith(code, << "\n" >>) THEN code ELSE code \o << "\n" >>)

-----------------------------------------------------------------------------
(* Prompts: prompts.py *)

\* get_system_prompts: the templates are filled from the target's name and content
SystemPrompts(target_filename, target_content) ==
    [target_file |-> target_filename, target_content |-> target_content]

\* get_initial_prompt: _INITIAL_PROMPT filled with the target's name
InitialPrompt(target_filename) ==
    [kind |-> "initial", target_file |-> target_filename,
     generated_code |-> << >>, error_summary |-> << >>]

\* get_feedback_prompt: _FEEDBACK_PROMPT filled with the name, the code and the errors
FeedbackPrompt(target_filename, code, error_summary) ==
    [kind |-> "feedback", target_file |-> target_filename,
     generated_code |-> code, error_summary |-> error_summary]

-----------------------------------------------------------------------------
(* Seed run helpers: gen_seed.py *)

Digits == { DigitChars[i] : i \in 1..10 }

\* the characters of the model that the regular expression \w matches
WordChars == { "a", "b", "c", "d", "e", "f", "g", "h", "x", "A", "B", "_" } \cup Digits

\* re.sub(r"[^\w-]", "_", name): every character is kept or replaced in place
ReplaceNonWord(s) ==
    [i \in 1..Len(s) |-> IF s[i] \in WordChars \cup { "-" } THEN s[i] ELSE "_"]

RECURSIVE CollapseUnderscores(_)
\* re.sub(r"_{2,}", "_", s): each maximal run of underscores becomes one.
\* The text is collapsed by halves; a run that the cut went through has left
\* one underscore on each side, of which one is kept.
CollapseUnderscores(s) ==
    IF Len(s) < 2 THEN s
    ELSE LET half == Len(s) \div 2
             left == CollapseUnderscores(SubSeq(s, 1, half))
             right == CollapseUnderscores(SubSeq(s, half + 1, Len(s)))
         IN  IF left[Len(left)] = "_" /\ right[1] = "_"
             THEN left \o Tail(right)
             ELSE left \o right

\* the same without the test of len(s) against MAX_FILENAME_LENGTH
sanitize_filename_NoTruncate(name) ==
    CollapseUnderscores(ReplaceNonWord(name))

sanitize_filename(name) ==
    LET s == CollapseUnderscores(ReplaceNonWord(name))
    IN  IF Len(s) > MAX_FILENAME_LENGTH THEN SubSeq(s, 1, MAX_FILENAME_LENGTH) ELSE s

RECURSIVE FirstNewline(_, _)
FirstNewline(s, i) ==
    IF i > Len(s) THEN 0 ELSE IF s[i] = "\n" THEN i ELSE FirstNewline(s, i + 1)

RECURSIVE SplitLines(_)
\* str.splitlines
SplitLines(s) ==
    IF s = << >> THEN << >>
    ELSE LET i == FirstNewline(s, 1)
         IN  IF i = 0 THEN << s >>
             ELSE << SubSeq(s, 1, i - 1) >> \o SplitLines(SubSeq(s, i + 1, Len(s)))

RECURSIVE JoinLines(_)
\* "\n".join(lines)
JoinLines(lines) ==
    IF lines = << >> THEN << >>
    ELSE IF Len(lines) = 1 THEN lines[1]
    ELSE lines[1] \o << "\n" >> \o JoinLines(Tail(lines))

\* len(re.match(r"^(\s*)", line).group(1))
Indent(line) == Len(line) - Len(LStrip(line))

RECURSIVE TakeBody(_, _, _)
\* the lines after the start line, up to the first non-blank line indented less
TakeBody(lines, i, base_indent) ==
    IF i > Len(lines) THEN << >>
    ELSE IF Indent(lines[i]) < base_indent /\ Strip(lines[i]) # << >> THEN << >>
    ELSE << lines[i] >> \o TakeBody(lines, i + 1, base_indent)

extract_function_code(file_content, start_line) ==
    LET lines == SplitLines(file_content)
    IN  IF start_line < 1 \/ start_line > Len(lines) THEN None
        ELSE Some(JoinLines(<< lines[start_line] >>
                 \o TakeBody(lines, start_line + 1, Indent(lines[start_line]))))

\* args.output_dir
OutputDir == "out"

\* output_file of generate_files
FileOutput(file_path) ==
    MkPath(OutputDir, WithSuffix(file_path, DEFAULT_FILE_EXTENSION).name)

\* output_file of handle_function
FunctionOutput(file, function_name) ==
    MkPath(OutputDir,
           Stem(file.name) \o << "_" >> \o sanitize_filename(function_name)
               \o DEFAULT_FILE_EXTENSION)

\* Path(f.name) of the NamedTemporaryFile of handle_function
TempFile == MkPath("tmp", << "t", "m", "p" >>)

RECURSIVE Flatten(_)
Flatten(ss) == IF ss = << >> THEN << >> ELSE Head(ss) \o Flatten(Tail(ss))

\* the targets of a function-mode target list that one file of the report gives
ZeroCoverageFunctions(entry) ==
    LET zero(fn) == fn.execution_count = 0
        sel == SelectSeq(entry.functions, zero)
    IN  [i \in 1..Len(sel) |->
            [file |-> entry.file, function_name |-> sel[i].name,
             start_line |-> sel[i].start_line]]

\* a selection that does not look whether the file is on disk
TargetedFunctions_NoExistsCheck(f, rep) ==
    Flatten([i \in 1..Len(rep) |-> ZeroCoverageFunctions(rep[i])])

\* targeted_functions of handle_function
TargetedFunctions(f, rep) ==
    Flatten([i \in 1..Len(rep) |->
                IF Exists(f, rep[i].file) THEN ZeroCoverageFunctions(rep[i]) ELSE << >>])

\* the value of a decimal digit
DigitValue(c) == (CHOOSE i \in 1..10 : DigitChars[i] = c) - 1

\* the digits of a text that int accepts: what follows the sign, if any
Unsigned(t) == IF t # << >> /\ t[1] \in { "+", "-" } THEN Tail(t) ELSE t

\* whether int(text) accepts the text: decimal digits after an optional sign,
\* white space around them (digit separators are left out)
IsIntText(text) ==
    LET t == Unsigned(Strip(text))
    IN  t # << >> /\ \A i \in 1..Len(t) : t[i] \in Digits

\* a conversion that keeps the last digit only
DecimalValue_LastDigit(t) == IF t = << >> THEN 0 ELSE DigitValue(t[Len(t)])

RECURSIVE DecimalValue(_)
\* the integer a text of decimal digits stands for
DecimalValue(t) ==
    IF t = << >> THEN 0
    ELSE 10 * DecimalValue(SubSeq(t, 1, Len(t) - 1)) + DigitValue(t[Len(t)])

\* int(text) of a text that int accepts
ParseInt(text) ==
    LET t == Strip(text)
    IN  IF t[1] = "-" THEN 0 - DecimalValue(Unsigned(t)) ELSE DecimalValue(Unsigned(t))

\* d[k] = v on a dict kept as the sequence of its items in insertion order
DictSet(d, k, v) ==
    IF \E i \in 1..Len(d) : d[i].key = k
    THEN [i \in 1..Len(d) |-> IF d[i].key = k THEN [key |-> k, val |-> v] ELSE d[i]]
    ELSE Append(d, [key |-> k, val |-> v])

RECURSIVE IntKeys(_)
\* the loops of parse_coverage: every item under the integer of its key
IntKeys(items) ==
    IF items = << >> THEN << >>
    ELSE LET n == Len(items)
         IN  DictSet(IntKeys(SubSeq(items, 1, n - 1)), ParseInt(items[n].key), items[n].val)

\* parse_coverage, for a report that json.load gave
parse_coverage(raw) ==
    [i \in 1..Len(raw.sources) |->
        LET file_info == raw.sources[i].unnamed
        IN  [file |-> raw.sources[i].file,
             branches |-> IntKeys(file_info.branches),
             functions |-> file_info.functions,
             lines |-> IntKeys(file_info.lines)]]

\* d[k] of Python raises KeyError unless k is a key of d
Has(d, k) == k \in DOMAIN d

\* the exception that one round of the loop of parse_coverage ends with, if any:
\* KeyError of a subscript, ValueError of int, in the order of the statements
SourceError(src) ==
    IF ~Has(src, "unnamed") THEN "KeyError"
    ELSE LET file_info == src.unnamed
         IN  IF ~Has(file_info, "branches") THEN "KeyError"
             ELSE IF \E j \in 1..Len(file_info.branches) : ~IsIntText(file_info.branches[j].key)
                  THEN "ValueError"
             ELSE IF ~Has(file_info, "lines") THEN "KeyError"
             ELSE IF \E j \in 1..Len(file_info.lines) : ~IsIntText(file_info.lines[j].key)
                  THEN "ValueError"
             ELSE IF ~Has(file_info, "functions") THEN "KeyError"
             ELSE "none"

\* the exception that parse_coverage raises, "none" when it returns
ParseError(raw) ==
    IF ~Has(raw, "sources") THEN "KeyError"
    ELSE LET bad == { i \in 1..Len(raw.sources) : SourceError(raw.sources[i]) # "none" }
         IN  IF bad = {} THEN "none"
             ELSE SourceError(raw.sources[CHOOSE i \in bad : \A j \in bad : i <= j])

\* the number of lines of a file of the report that were executed
CoveredLines(entry) ==
    Cardinality({ i \in 1..Len(entry.lines) : entry.lines[i].val > 0 })

\* the number of instrumented lines of a file of the report
TotalLines(entry) == Len(entry.lines)

\* a selection that takes the upper threshold in
InThresholds_UpperInclusive(entry, threshold, min_threshold) ==
    IF TotalLines(entry) = 0 THEN min_threshold <= 0 /\ 0 <= threshold
    ELSE /\ min_threshold * TotalLines(entry) <= CoveredLines(entry) * 100
         /\ CoveredLines(entry) * 100 <= threshold * TotalLines(entry)

\* min_threshold <= covered / total * 100 < threshold, with 0% for no line
InThresholds(entry, threshold, min_threshold) ==
    IF TotalLines(entry) = 0 THEN min_threshold <= 0 /\ 0 < threshold
    ELSE /\ min_threshold * TotalLines(entry) <= CoveredLines(entry) * 100
         /\ CoveredLines(entry) * 100 < threshold * TotalLines(entry)

\* find_low_coverage_from_json of analyze_coverage: the files of the report that
\* exist and whose coverage is in the thresholds, in the order of the report
find_low_coverage_from_json(f, coverage_data, threshold, min_threshold) ==
    LET low(entry) == Exists(f, entry.file) /\ InThresholds(entry, threshold, min_threshold)
    IN  SelectSeq(coverage_data, low)

\* low_coverage_files of handle_file, as generate_files takes them
LowCoverageFiles(f, coverage_data, threshold, min_threshold) ==
    LET low == find_low_coverage_from_json(f, coverage_data, threshold, min_threshold)
    IN  [i \in 1..Len(low) |->
            [file |-> low[i].file, function_name |-> << >>, start_line |-> 0]]

-----------------------------------------------------------------------------
(* The inputs of the model: source files, coverage reports, output directories *)

SourceA == MkPath("src", << "a", ".", "c", "p", "p" >>)
SourceB == MkPath("src", << "b", ".", "c", "p", "p" >>)

DataA == << "f", "\n", " ", "x" >>
DataB == << "g" >>

Fn(name, line, count) == [name |-> name, start_line |-> line, execution_count |-> count]

\* an item of a dict of the report
Item(k, v) == [key |-> k, val |-> v]

\* the entry of a source file in the JSON report: its data are under the key ""
RawSource(file, branches, functions, lines) ==
    [file |-> file,
     unnamed |-> [branches |-> branches, functions |-> functions, lines |-> lines]]

\* what json.load gives for a report that is JSON
Json(sources) == [valid |-> TRUE, sources |-> sources]

\* a report file that is not JSON
NotJson == [valid |-> FALSE, sources |-> << >>]

\* three lines of which one was executed, and a branch
LinesOneOfThree == << Item(<< "1" >>, 0), Item(<< "2" >>, 0), Item(<< "3" >>, 1) >>
BranchesOfLine2 == << Item(<< "2" >>, << 0, 1 >>) >>

\* two files, one uncovered function each, and a covered one
ReportAB ==
    Json(<< RawSource(SourceA, BranchesOfLine2, << Fn(<< "f" >>, 1, 0) >>, LinesOneOfThree),
            RawSource(SourceB, << >>, << Fn(<< "g", ":", ":", "h" >>, 1, 0),
                                         Fn(<< "x" >>, 1, 3) >>, << >>) >>)

\* as ReportAB, with a start line of a.cpp's function that the file does not have
ReportBadLine ==
    Json(<< RawSource(SourceA, BranchesOfLine2, << Fn(<< "f" >>, 3, 0) >>, LinesOneOfThree),
            RawSource(SourceB, << >>, << Fn(<< "g", ":", ":", "h" >>, 1, 0) >>, << >>) >>)

ReportA ==
    Json(<< RawSource(SourceA, BranchesOfLine2, << Fn(<< "f" >>, 1, 0) >>, LinesOneOfThree) >>)

\* args.fastcov_json and the file it names
CoverageJson == MkPath("cov", << "c", ".", "j", "s", "o", "n" >>)
CoverageFile == (CoverageJson :> RegularFile(<< "{", "}" >>, 2))

PlainSources ==
    (SourceA :> RegularFile(DataA, Len(DataA))) @@ (SourceB :> RegularFile(DataB, Len(DataB)))
        @@ CoverageFile

\* a file left in the output directory by an earlier use of it
OldOutput == RegularFile(<< "o", "l", "d", "\n" >>, Len(<< "o", "l", "d", "\n" >>))

\* a.cpp is larger than the size ceiling (its data stands for the whole content),
\* and the output directory already holds the canonical outputs of its targets
LargeSources ==
    (SourceA :> RegularFile(DataA, MAX_FILE_SIZE_BYTES + 1))
        @@ (SourceB :> RegularFile(DataB, Len(DataB)))
        @@ (FileOutput(SourceA) :> OldOutput)
        @@ (FunctionOutput(SourceA, << "f" >>) :> OldOutput)
        @@ CoverageFile

\* the output directory already holds the canonical outputs of a.cpp's targets
SatisfiedSources ==
    (FileOutput(SourceA) :> OldOutput)
        @@ (FunctionOutput(SourceA, << "f" >>) :> OldOutput) @@ PlainSources

\* The texts of the service: empty, a bare fence, a plain text; a fenced text
OneText == { << >>, FENCE, << "A" >> }

\* The pieces that the raw texts of the model are made of
Pieces == { << " " >>, << "\n" >>, FENCE, << "d", "e", "f" >>, << "A" >> }

RECURSIVE PieceTexts(_)
\* the texts made of n pieces
PieceTexts(n) ==
    IF n = 0 THEN { << >> }
    ELSE { t \o q : t \in PieceTexts(n - 1), q \in Pieces }

\* The text of a design, as the service gives it and as invoke_llm returns it
DesignText ==
    << "D", "E", "S", "I", "G", "N", " ", "x", " ", ";", "\n",
       "E", "N", "D", " ", "D", "E", "S", "I", "G", "N" >>

FencedDesign == FENCE \o << "d", "e", "f", "\n" >> \o DesignText \o << "\n" >> \o FENCE

TwoTexts == OneText \cup { FencedDesign }

\* the contents completion may return to invoke_llm: None, or a text of up to
\* MaxPieces pieces, or the fenced design
RawContents ==
    { None, Some(FencedDesign) }
        \cup { Some(t) : t \in UNION { PieceTexts(n) : n \in 0..MaxPieces } }

OnlyA == (SourceA :> RegularFile(DataA, Len(DataA))) @@ CoverageFile

\* one target with a service of two texts; two targets with a service of one;
\* a report whose only target is already satisfied
Scenarios ==
    { [fs |-> OnlyA, report |-> ReportA, openroad |-> TRUE, texts |-> TwoTexts],
      [fs |-> PlainSources, report |-> ReportAB, openroad |-> TRUE, texts |-> OneText],
      [fs |-> PlainSources, report |-> ReportAB, openroad |-> FALSE, texts |-> OneText],
      [fs |-> SatisfiedSources, report |-> ReportAB, openroad |-> TRUE, texts |-> OneText],
      [fs |-> SatisfiedSources, report |-> ReportA, openroad |-> TRUE, texts |-> OneText],
      [fs |-> LargeSources, report |-> ReportBadLine, openroad |-> TRUE, texts |-> OneText] }

\* the inputs of the runs that are repeated on the same output directory
RerunScenarios ==
    { [fs |-> OnlyA, report |-> ReportA, openroad |-> TRUE, texts |-> OneText],
      [fs |-> PlainSources, report |-> ReportAB, openroad |-> FALSE, texts |-> OneText],
      [fs |-> SatisfiedSources, report |-> ReportAB, openroad |-> TRUE, texts |-> OneText],
      [fs |-> LargeSources, report |-> ReportBadLine, openroad |-> TRUE, texts |-> OneText] }

-----------------------------------------------------------------------------
(* The state machine *)

NoPath == MkPath("", << >>)
NoPrompt == InitialPrompt(<< >>)
NoSystemPrompts == SystemPrompts(<< >>, << >>)
NoMessages == BuildMessages(NoSystemPrompts, NoPrompt)
NoLint == [success |-> FALSE, stderr |-> << >>]
NoResult == [returncode |-> -1, stdout |-> << >>, stderr |-> << >>]
NoEnv == [DEF_FILE |-> << >>, LEF_FILES |-> << >>]
NoFiles == [p \in {} |-> RegularFile(<< >>, 0)]

\* the library files of the model, one of them under an absolute directory
LibA == MkPath("lib", << "a", ".", "l", "e", "f" >>)
LibB == MkPath("/pdk", << "b", ".", "l", "e", "f" >>)

\* the command line of a seed run
SeedArgs(threshold, min_threshold, library) ==
    [threshold |-> threshold, min_threshold |-> min_threshold,
     fastcov_json |-> CoverageJson, library |-> library,
     target |-> NoPath, output |-> NoPath]

\* --threshold 40 --min-threshold 0 (the defaults) and --library with no file
DefaultSeedArgs == SeedArgs(40, 0, Some(<< >>))

\* the locals of generate_code, invoke_llm and completion, out of a call
\* fix_def is not running
NoFix == [input |-> << >>, code |-> << >>, rule |-> 1, subs |-> 1]

\* sanitize_filename is not running
NoName == [name |-> << >>, s |-> << >>, again |-> << >>]

AgentIdle ==
    /\ target_file = NoPath /\ output_file = NoPath /\ system_prompts = NoSystemPrompts
    /\ current_prompt = NoPrompt
    /\ attempt = 0 /\ generated_code = None /\ lint = NoLint /\ checker = NoResult /\ checker_env = NoEnv
    /\ messages = NoMessages /\ llm_attempt = 0 /\ content = None /\ requests = << >> /\ slept = << >> /\ calls = << >>
    /\ outcomes = << >>

InitWith(scenarios) ==
    \E sc \in scenarios, m \in { "file", "function" }, k \in 0..MaxRetriesBound :
        /\ mode = m /\ max_retries = k
        /\ command = "seed" /\ argv = DefaultSeedArgs
        /\ raw_data = sc.report /\ report = parse_coverage(sc.report)
        /\ fs = sc.fs /\ openroad = sc.openroad /\ texts = sc.texts
        /\ kept = NoFiles
        /\ run = 1 /\ pc = "start" /\ exc = "none" /\ exit_code = -1
        /\ targets = << >> /\ ti = 1 /\ success = 0 /\ failure = 0 /\ skipped = 0
        /\ accepted = {}
        /\ AgentIdle /\ fix = NoFix /\ sanitized = NoName

Init == InitWith(Scenarios)

InitRerun == InitWith(RerunScenarios)

inputs == << mode, max_retries, report, run, openroad, texts, command, argv, raw_data, kept, fix, sanitized >>
counters == << success, failure, skipped >>
agentLocals ==
    << target_file, output_file, system_prompts, current_prompt, attempt, generated_code, lint,
       checker, checker_env >>
llmLocals == << messages, llm_attempt, content, requests, slept >>
history == << calls, outcomes, accepted >>

\* an uncaught exception ends the process with exit status 1
Raise(e) == pc' = "crashed" /\ exc' = e /\ exit_code' = 1

\* leaving the with block of handle_function removes the temporary file
CloseTempFile(f) == IF mode = "function" /\ LExists(f, TempFile) THEN FsRemove(f, TempFile) ELSE f

target_filename == target_file.name
target_content == fs[Resolve(fs, target_file)].data
initial_prompt == InitialPrompt(target_filename)
current_file == AttemptFile(output_file, attempt)

\* a loop that runs one attempt too many
AttemptLoopRuns_OffByOne(i, k) == i <= k + 1

\* range(self.max_retries + 1) of generate_code
AttemptLoopRuns(i, k) == i <= k

\* an empty response that leaves the prompt as it is
PromptAfterEmpty_KeepsCurrent(initial, current) == current

\* the prompt after an empty response
PromptAfterEmpty(initial, current) == initial

\* the prompt after a rejection
PromptAfterReject(filename, code, lint_stderr) == FeedbackPrompt(filename, code, lint_stderr)

\* the outcome of the current target as handle_function / generate_files count it
CountsAsSuccess(ret) == Truthy(ret)

(* main of gen_seed.py, up to the loop over the targets *)
SeedStart ==
    /\ pc = "start"
    /\ targets' = IF mode = "file"
                  THEN LowCoverageFiles(fs, report, argv.threshold, argv.min_threshold)
                  ELSE TargetedFunctions(fs, report)
    /\ ti' = 1
    /\ pc' = "rc_loop"
    /\ UNCHANGED << inputs, exc, exit_code, fs, counters, agentLocals, llmLocals, history >>

AtTarget == pc = "rc_loop" /\ ti <= Len(targets)
target == targets[ti]
TargetOutput ==
    IF mode = "file" THEN FileOutput(target.file)
    ELSE FunctionOutput(target.file, target.function_name)
FunctionCode == extract_function_code(fs[Resolve(fs, target.file)].data, target.start_line)

Continue == ti' = ti + 1 /\ pc' = "rc_loop"

(* generate_files: the target file is gone *)
RcFileMissing ==
    /\ AtTarget /\ mode = "file"
    /\ ~Exists(fs, target.file)
    /\ failure' = failure + 1
    /\ Continue
    /\ UNCHANGED << inputs, exc, exit_code, fs, targets, success, skipped,
                    agentLocals, llmLocals, history >>

(* generate_files: the target file is larger than MAX_FILE_SIZE_BYTES *)
RcFileTooLarge ==
    /\ AtTarget /\ mode = "file"
    /\ Exists(fs, target.file)
    /\ fs[Resolve(fs, target.file)].size > MAX_FILE_SIZE_BYTES
    /\ failure' = failure + 1
    /\ Continue
    /\ UNCHANGED << inputs, exc, exit_code, fs, targets, success, skipped,
                    agentLocals, llmLocals, history >>

(* handle_function: file.open raises FileNotFoundError *)
RcFunctionOpenFails ==
    /\ AtTarget /\ mode = "function"
    /\ ~Exists(fs, target.file)
    /\ Raise("FileNotFoundError")
    /\ UNCHANGED << inputs, fs, targets, ti, counters, agentLocals, llmLocals, history >>

(* handle_function: extract_function_code returned None *)
RcFunctionNoSnippet ==
    /\ AtTarget /\ mode = "function"
    /\ Exists(fs, target.file)
    /\ FunctionCode.isNone
    /\ failure' = failure + 1
    /\ Continue
    /\ UNCHANGED << inputs, exc, exit_code, fs, targets, success, skipped,
                    agentLocals, llmLocals, history >>

\* the checks that precede the output check passed
TargetUsable ==
    /\ AtTarget
    /\ Exists(fs, target.file)
    /\ mode = "file" => fs[Resolve(fs, target.file)].size <= MAX_FILE_SIZE_BYTES
    /\ mode = "function" => ~FunctionCode.isNone

\* a skip that counts the target as a failure
RcSkipExisting_CountsFailure ==
    /\ TargetUsable
    /\ Exists(fs, TargetOutput)
    /\ failure' = failure + 1
    /\ Continue
    /\ UNCHANGED << inputs, exc, exit_code, fs, targets, success, skipped,
                    agentLocals, llmLocals, history >>

(* generate_files / handle_function: the output file exists, skip the target *)
RcSkipExisting ==
    /\ TargetUsable
    /\ Exists(fs, TargetOutput)
    /\ skipped' = skipped + 1
    /\ Continue
    /\ UNCHANGED << inputs, exc, exit_code, fs, targets, success, failure,
                    agentLocals, llmLocals, history >>

(* generate_files / handle_function: call agent.generate_code *)
RcGenerate ==
    /\ TargetUsable
    /\ ~Exists(fs, TargetOutput)
    /\ output_file' = TargetOutput
    /\ IF mode = "file"
       THEN target_file' = target.file /\ fs' = fs
       ELSE target_file' = TempFile /\ fs' = FsWrite(fs, TempFile, FunctionCode.val)
    /\ pc' = "gc_read"
    /\ UNCHANGED << inputs, exc, exit_code, targets, ti, counters, system_prompts,
                    current_prompt, attempt, generated_code, lint, checker, checker_env, llmLocals, history >>

\* a failed read that leaves an empty first attempt file behind
GcReadFails_LeavesFile ==
    /\ pc = "gc_read"
    /\ ~Exists(fs, target_file)
    /\ generated_code' = None
    /\ fs' = WriteCode(fs, AttemptFile(output_file, 0), << >>)
    /\ pc' = "rc_return"
    /\ UNCHANGED << inputs, exc, exit_code, targets, ti, counters, target_file,
                    output_file, system_prompts, current_prompt, attempt, lint, checker, checker_env, llmLocals, history >>

(* generate_code: the target file cannot be read *)
GcReadFails ==
    /\ pc = "gc_read"
    /\ ~Exists(fs, target_file)
    /\ generated_code' = None
    /\ pc' = "rc_return"
    /\ UNCHANGED << inputs, exc, exit_code, fs, targets, ti, counters, target_file,
                    output_file, system_prompts, current_prompt, attempt, lint, checker, checker_env, llmLocals, history >>

(* generate_code: read the target, build the prompts *)
GcRead ==
    /\ pc = "gc_read"
    /\ Exists(fs, target_file)
    /\ system_prompts' = SystemPrompts(target_filename, target_content)
    /\ current_prompt' = initial_prompt
    /\ attempt' = 0
    /\ pc' = "gc_loop"
    /\ UNCHANGED << inputs, exc, exit_code, fs, targets, ti, counters, target_file,
                    output_file, generated_code, lint, checker, checker_env, llmLocals, history >>

(* generate_code: an attempt starts; invoke_llm builds the messages *)
GcInvoke ==
    /\ pc = "gc_loop"
    /\ AttemptLoopRuns(attempt, max_retries)
    /\ messages' = BuildMessages(system_prompts, current_prompt)
    /\ llm_attempt' = 0
    /\ content' = None
    /\ requests' = << >>
    /\ slept' = << >>
    /\ calls' = Append(calls, [op |-> "invoke_llm", attempt |-> attempt,
                               prompt_kind |-> current_prompt.kind, file |-> NoPath])
    /\ pc' = "completion"
    /\ UNCHANGED << inputs, exc, exit_code, fs, targets, ti, counters, agentLocals,
                    outcomes, accepted >>

\* a client that does not sleep after the signal of its last attempt
CompletionRateLimit_NoSleepOnLast ==
    /\ pc = "completion"
    /\ CompletionLoopRuns(llm_attempt)
    /\ requests' = Append(requests, messages)
    /\ slept' = IF CompletionLoopRuns(llm_attempt + 1)
                THEN Append(slept, BackoffDelay(llm_attempt))
                ELSE slept
    /\ llm_attempt' = llm_attempt + 1
    /\ UNCHANGED << inputs, pc, exc, exit_code, fs, targets, ti, counters, agentLocals,
                    messages, content, history >>

(* completion: litellm.completion raises RateLimitError; sleep, then loop *)
CompletionRateLimit ==
    /\ pc = "completion"
    /\ CompletionLoopRuns(llm_attempt)
    /\ requests' = Append(requests, messages)
    /\ slept' = Append(slept, BackoffDelay(llm_attempt))
    /\ llm_attempt' = llm_attempt + 1
    /\ UNCHANGED << inputs, pc, exc, exit_code, fs, targets, ti, counters, agentLocals,
                    messages, content, history >>

\* a not-found signal that is raised only after the backoff sleep
CompletionNotFound_AfterBackoff ==
    /\ pc = "completion"
    /\ CompletionLoopRuns(llm_attempt)
    /\ requests' = Append(requests, messages)
    /\ slept' = Append(slept, BackoffDelay(llm_attempt))
    /\ Raise("NotFoundError")
    /\ fs' = CloseTempFile(fs)
    /\ UNCHANGED << inputs, targets, ti, counters, agentLocals, messages, llm_attempt,
                    content, history >>

(* completion: litellm.completion raises NotFoundError, which is raised again *)
CompletionNotFound ==
    /\ pc = "completion"
    /\ CompletionLoopRuns(llm_attempt)
    /\ requests' = Append(requests, messages)
    /\ Raise("NotFoundError")
    /\ fs' = CloseTempFile(fs)
    /\ UNCHANGED << inputs, targets, ti, counters, agentLocals, messages, llm_attempt,
                    content, slept, history >>

(* completion returns on a response that is no exception *)
CompletionResponse ==
    /\ pc = "completion"
    /\ CompletionLoopRuns(llm_attempt)
    /\ \E resp \in OkResponses(texts) : content' = CompletionResult(resp)
    /\ requests' = Append(requests, messages)
    /\ pc' = "invoke_return"
    /\ UNCHANGED << inputs, exc, exit_code, fs, targets, ti, counters, agentLocals,
                    messages, llm_attempt, slept, history >>

(* completion: the attempts are used up, it returns None *)
CompletionExhausted ==
    /\ pc = "completion"
    /\ ~CompletionLoopRuns(llm_attempt)
    /\ content' = None
    /\ pc' = "invoke_return"
    /\ UNCHANGED << inputs, exc, exit_code, fs, targets, ti, counters, agentLocals,
                    messages, llm_attempt, requests, slept, history >>

(* invoke_llm post-processes the content and returns to generate_code *)
InvokeReturn ==
    /\ pc = "invoke_return"
    /\ generated_code' = Some(InvokeResult(content))
    /\ pc' = "gc_check"
    /\ UNCHANGED << inputs, exc, exit_code, fs, targets, ti, counters, target_file,
                    output_file, system_prompts, current_prompt, attempt, lint, checker, checker_env,
                    llmLocals, history >>

(* generate_code: empty response, retry with the initial prompt *)
GcEmpty ==
    /\ pc = "gc_check"
    /\ Strip(generated_code.val) = << >>
    /\ current_prompt' = PromptAfterEmpty(initial_prompt, current_prompt)
    /\ attempt' = attempt + 1
    /\ outcomes' = Append(outcomes, "empty")
    /\ content' = None
    /\ pc' = "gc_loop"
    /\ UNCHANGED << inputs, exc, exit_code, fs, targets, ti, counters, target_file,
                    output_file, system_prompts, generated_code, lint, checker, checker_env, messages,
                    llm_attempt, requests, slept, calls, accepted >>

\* a step that goes on to the verification without writing the candidate
GcWrite_NoPersist ==
    /\ pc = "gc_check"
    /\ Strip(generated_code.val) # << >>
    /\ content' = None
    /\ pc' = "gc_verify"
    /\ UNCHANGED << inputs, exc, exit_code, fs, targets, ti, counters, agentLocals,
                    messages, llm_attempt, requests, slept, history >>

(* generate_code: write_code(current_file, generated_code) *)
GcWrite ==
    /\ pc = "gc_check"
    /\ Strip(generated_code.val) # << >>
    /\ fs' = WriteCode(fs, current_file, generated_code.val)
    /\ content' = None
    /\ pc' = "gc_verify"
    /\ UNCHANGED << inputs, exc, exit_code, targets, ti, counters, agentLocals,
                    messages, llm_attempt, requests, slept, history >>

(* verify_code: the checker is not installed *)
GcVerifyUnavailable ==
    /\ pc = "gc_verify"
    /\ ~openroad
    /\ Raise("RuntimeError")
    /\ fs' = CloseTempFile(fs)
    /\ UNCHANGED << inputs, targets, ti, counters, agentLocals, llmLocals, history >>

(* generate_code: the checker rejects; build the feedback prompt *)
GcVerifyReject ==
    /\ pc = "gc_verify"
    /\ openroad
    /\ \E result \in OracleResults :
          /\ ~HandleResult(result).success
          /\ checker' = result
          /\ checker_env' = CheckerEnvironment(fs, current_file, argv.library.val)
          /\ lint' = [success |-> FALSE, stderr |-> HandleResult(result).stderr]
          /\ current_prompt' = PromptAfterReject(target_filename, generated_code.val,
                                                 HandleResult(result).stderr)
    /\ calls' = Append(calls, [op |-> "verify_code", attempt |-> attempt,
                               prompt_kind |-> current_prompt.kind, file |-> current_file])
    /\ attempt' = attempt + 1
    /\ outcomes' = Append(outcomes, "rejected")
    /\ pc' = "gc_loop"
    /\ UNCHANGED << inputs, exc, exit_code, fs, targets, ti, counters, target_file,
                    output_file, system_prompts, generated_code, llmLocals, accepted >>

(* generate_code: the checker accepts *)
GcVerifyAccept ==
    /\ pc = "gc_verify"
    /\ openroad
    /\ \E result \in OracleResults :
          /\ HandleResult(result).success
          /\ checker' = result
          /\ checker_env' = CheckerEnvironment(fs, current_file, argv.library.val)
          /\ lint' = [success |-> TRUE, stderr |-> HandleResult(result).stderr]
    /\ calls' = Append(calls, [op |-> "verify_code", attempt |-> attempt,
                               prompt_kind |-> current_prompt.kind, file |-> current_file])
    /\ outcomes' = Append(outcomes, "accepted")
    /\ accepted' = accepted \cup { [out |-> output_file, file |-> current_file,
                                    code |-> generated_code.val, run |-> run] }
    /\ pc' = "gc_accept"
    /\ UNCHANGED << inputs, exc, exit_code, fs, targets, ti, counters, target_file,
                    output_file, system_prompts, current_prompt, attempt, generated_code, llmLocals >>

(* generate_code: target_file.symlink_to(current_file) raises FileExistsError *)
GcSymlinkFails ==
    /\ pc = "gc_accept"
    /\ LExists(fs, target_file)
    /\ Raise("FileExistsError")
    /\ fs' = CloseTempFile(fs)
    /\ UNCHANGED << inputs, targets, ti, counters, agentLocals, llmLocals, history >>

\* an acceptance that first renames the first attempt, if it was rejected, to
\* its failed name
GcSymlink_RenamesRejected ==
    /\ pc = "gc_accept"
    /\ ~LExists(fs, target_file)
    /\ fs' = FsSymlink(IF attempt > 0 /\ LExists(fs, AttemptFile(output_file, 0))
                       THEN FsRename(fs, AttemptFile(output_file, 0), FailedFile(output_file, 0))
                       ELSE fs,
                       target_file, current_file)
    /\ pc' = "rc_return"
    /\ UNCHANGED << inputs, exc, exit_code, targets, ti, counters, agentLocals,
                    llmLocals, history >>

(* generate_code: target_file.symlink_to(current_file), return generated_code *)
GcSymlink ==
    /\ pc = "gc_accept"
    /\ ~LExists(fs, target_file)
    /\ fs' = FsSymlink(fs, target_file, current_file)
    /\ pc' = "rc_return"
    /\ UNCHANGED << inputs, exc, exit_code, targets, ti, counters, agentLocals,
                    llmLocals, history >>

(* generate_code: the attempts are used up; start the renaming loop *)
GcExhausted ==
    /\ pc = "gc_loop"
    /\ ~AttemptLoopRuns(attempt, max_retries)
    /\ attempt' = 0
    /\ pc' = "gc_rename"
    \* the locals of the attempt loop are read no more
    /\ current_prompt' = NoPrompt /\ generated_code' = None /\ lint' = NoLint /\ checker' = NoResult /\ checker_env' = NoEnv
    /\ messages' = NoMessages /\ llm_attempt' = 0 /\ content' = None /\ requests' = << >> /\ slept' = << >>
    /\ UNCHANGED << inputs, exc, exit_code, fs, targets, ti, counters, target_file,
                    output_file, system_prompts, history >>

(* generate_code: rename one attempt file to its failed name *)
GcRename ==
    /\ pc = "gc_rename"
    /\ AttemptLoopRuns(attempt, max_retries)
    /\ LExists(fs, current_file)
    /\ fs' = FsRename(fs, current_file, FailedFile(output_file, attempt))
    /\ attempt' = attempt + 1
    /\ UNCHANGED << inputs, pc, exc, exit_code, targets, ti, counters, target_file,
                    output_file, system_prompts, current_prompt, generated_code, lint, checker, checker_env, llmLocals, history >>

(* generate_code: current_file.rename raises FileNotFoundError *)
GcRenameFails ==
    /\ pc = "gc_rename"
    /\ AttemptLoopRuns(attempt, max_retries)
    /\ ~LExists(fs, current_file)
    /\ Raise("FileNotFoundError")
    /\ fs' = CloseTempFile(fs)
    /\ UNCHANGED << inputs, targets, ti, counters, agentLocals, llmLocals, history >>

(* generate_code: all attempt files are renamed, return None *)
GcReturnNone ==
    /\ pc = "gc_rename"
    /\ ~AttemptLoopRuns(attempt, max_retries)
    /\ generated_code' = None
    /\ pc' = "rc_return"
    /\ UNCHANGED << inputs, exc, exit_code, fs, targets, ti, counters, target_file,
                    output_file, system_prompts, current_prompt, attempt, lint, checker, checker_env, llmLocals, history >>

\* a return that counts a failed target in both tallies
RcReturn_CountsBoth ==
    /\ pc = "rc_return"
    /\ success' = success + 1
    /\ failure' = IF CountsAsSuccess(generated_code) THEN failure ELSE failure + 1
    /\ fs' = CloseTempFile(fs)
    /\ Continue
    /\ target_file' = NoPath /\ output_file' = NoPath /\ system_prompts' = NoSystemPrompts
    /\ current_prompt' = NoPrompt
    /\ attempt' = 0 /\ generated_code' = None /\ lint' = NoLint /\ checker' = NoResult /\ checker_env' = NoEnv /\ messages' = NoMessages
    /\ llm_attempt' = 0 /\ content' = None /\ requests' = << >> /\ slept' = << >> /\ calls' = << >>
    /\ outcomes' = << >>
    /\ UNCHANGED << inputs, exc, exit_code, targets, skipped, accepted >>

(* generate_files / handle_function: count the outcome, go to the next target *)
RcReturn ==
    /\ pc = "rc_return"
    /\ IF CountsAsSuccess(generated_code)
       THEN success' = success + 1 /\ failure' = failure
       ELSE success' = success /\ failure' = failure + 1
    /\ fs' = CloseTempFile(fs)
    /\ Continue
    /\ target_file' = NoPath /\ output_file' = NoPath /\ system_prompts' = NoSystemPrompts
    /\ current_prompt' = NoPrompt
    /\ attempt' = 0 /\ generated_code' = None /\ lint' = NoLint /\ checker' = NoResult /\ checker_env' = NoEnv /\ messages' = NoMessages
    /\ llm_attempt' = 0 /\ content' = None /\ requests' = << >> /\ slept' = << >> /\ calls' = << >>
    /\ outcomes' = << >>
    /\ UNCHANGED << inputs, exc, exit_code, targets, skipped, accepted >>

(* generate_files / handle_function return; main goes on to the summary *)
RcDone ==
    /\ pc = "rc_loop"
    /\ ti > Len(targets)
    /\ pc' = "summary"
    /\ UNCHANGED << inputs, exc, exit_code, fs, targets, ti, counters, agentLocals,
                    llmLocals, history >>

(* main: the summary divides by success + failure *)
SummaryDivisionByZero ==
    /\ pc = "summary"
    /\ success + failure = 0
    /\ Raise("ZeroDivisionError")
    /\ UNCHANGED << inputs, fs, targets, ti, counters, agentLocals, llmLocals, history >>

(* main: the summary, then sys.exit(1 if failure else 0) *)
SummaryExit ==
    /\ pc = "summary"
    /\ success + failure # 0
    /\ exit_code' = IF failure # 0 THEN 1 ELSE 0
    /\ pc' = "exited"
    /\ UNCHANGED << inputs, exc, fs, targets, ti, counters, agentLocals, llmLocals,
                    history >>

\* the source file that the next step of the program looks for on disk
ObservedSources ==
    IF pc = "start" THEN { report[i].file : i \in 1..Len(report) }
    ELSE IF AtTarget THEN { target.file }
    ELSE IF pc \in { "gc_read", "gc_accept" } /\ mode = "file" THEN { target_file }
    ELSE {}

(* the environment: a source file of the report vanishes while the run goes on. *)
(* A removal shows only at the next look of the program at that file, so the    *)
(* model lets files vanish right before such a look.                            *)
EnvRemoveSource ==
    /\ \E p \in ObservedSources :
          /\ LExists(fs, p)
          /\ fs' = FsRemove(fs, p)
    /\ UNCHANGED << inputs, pc, exc, exit_code, targets, ti, counters, agentLocals,
                    llmLocals, history >>

\* the canonical outputs of the targets the report can give
ReportOutputs ==
    { FileOutput(report[i].file) : i \in 1..Len(report) }
        \cup UNION { { FunctionOutput(report[i].file, report[i].functions[j].name) :
                          j \in 1..Len(report[i].functions) } : i \in 1..Len(report) }

\* the attempt and failed-attempt files of the targets of the report
ArtifactPaths ==
    { AttemptFile(out, i) : out \in ReportOutputs, i \in 0..max_retries }
        \cup { FailedFile(out, i) : out \in ReportOutputs, i \in 0..max_retries }

(* the seed command is run again on the same output directory *)
Rerun ==
    /\ pc \in { "exited", "crashed" }
    /\ run < MaxRuns
    /\ run' = run + 1
    /\ pc' = "start" /\ exc' = "none" /\ exit_code' = -1
    /\ targets' = << >> /\ ti' = 1 /\ success' = 0 /\ failure' = 0 /\ skipped' = 0
    /\ target_file' = NoPath /\ output_file' = NoPath /\ system_prompts' = NoSystemPrompts
    /\ current_prompt' = NoPrompt
    /\ attempt' = 0 /\ generated_code' = None /\ lint' = NoLint /\ checker' = NoResult /\ checker_env' = NoEnv /\ messages' = NoMessages
    /\ llm_attempt' = 0 /\ content' = None /\ requests' = << >> /\ slept' = << >> /\ calls' = << >>
    /\ outcomes' = << >>
    /\ kept' = [p \in DOMAIN fs \cap ArtifactPaths |-> fs[p]]
    /\ UNCHANGED << mode, max_retries, report, openroad, texts, fs, accepted,
                    command, argv, raw_data, fix, sanitized >>

-----------------------------------------------------------------------------
(* The commands, from main to the first target: validate_args and main of     *)
(* gen_seed.py, gen_snippet.py and verify_code.py                             *)

\* sys.exit(code)
Exit(code) == pc' = "exited" /\ exit_code' = code /\ exc' = "none"

\* the locals of the agent and the client, and the counts, that main does not touch
idle == << targets, ti, counters, target_file, output_file, system_prompts, current_prompt,
           attempt, generated_code, lint, llmLocals, history >>

\* a check of the thresholds that lets min_threshold equal threshold
ThresholdsValid_AllowsEqual(threshold, min_threshold) ==
    /\ 0 <= threshold /\ threshold <= COVERAGE_MAX
    /\ 0 <= min_threshold /\ min_threshold <= COVERAGE_MAX
    /\ ~(min_threshold > threshold)

\* validate_args of gen_seed.py: the three checks of the thresholds
ThresholdsValid(threshold, min_threshold) ==
    /\ 0 <= threshold /\ threshold <= COVERAGE_MAX
    /\ 0 <= min_threshold /\ min_threshold <= COVERAGE_MAX
    /\ ~(min_threshold >= threshold)

\* validate_args of gen_seed.py returns args and not None (the output
\* directory, which it creates in either case, is not a file of the model)
SeedArgsValid ==
    /\ ThresholdsValid(argv.threshold, argv.min_threshold)
    /\ Exists(fs, argv.fastcov_json)
    /\ \A i \in 1..Len(argv.library.val) : Exists(fs, argv.library.val[i])

(* validate_args of gen_seed.py: without --library, arguments.library is None *)
SeedLibraryOmitted ==
    /\ pc = "main" /\ command = "seed"
    /\ argv.library.isNone
    /\ Raise("TypeError")
    /\ UNCHANGED << inputs, fs, idle, checker, checker_env >>

(* main of gen_seed.py: validate_args returned None *)
SeedArgsRejected ==
    /\ pc = "main" /\ command = "seed"
    /\ ~argv.library.isNone
    /\ ~SeedArgsValid
    /\ Exit(1)
    /\ UNCHANGED << inputs, fs, idle, checker, checker_env >>

(* main of gen_seed.py: the arguments are valid *)
SeedArgsAccepted ==
    /\ pc = "main" /\ command = "seed"
    /\ ~argv.library.isNone
    /\ SeedArgsValid
    /\ pc' = "load"
    /\ UNCHANGED << inputs, exc, exit_code, fs, idle, checker, checker_env >>

(* main of gen_seed.py: json.load raises JSONDecodeError *)
LoadCoverageNotJson ==
    /\ pc = "load"
    /\ ~raw_data.valid
    /\ Exit(1)
    /\ UNCHANGED << inputs, fs, idle, checker, checker_env >>

(* parse_coverage: int() raises ValueError, which main does not catch *)
LoadCoverageBadKey ==
    /\ pc = "load"
    /\ raw_data.valid /\ ParseError(raw_data) = "ValueError"
    /\ Raise("ValueError")
    /\ UNCHANGED << inputs, fs, idle, checker, checker_env >>

\* a loader that takes a report of another shape for a report of no file
LoadCoverageMissingKey_EmptyReport ==
    /\ pc = "load"
    /\ raw_data.valid /\ ParseError(raw_data) = "KeyError"
    /\ report' = << >>
    /\ pc' = "agent"
    /\ UNCHANGED << mode, max_retries, run, openroad, texts, command, argv, raw_data, kept, fix, sanitized,
                    exc, exit_code, fs, idle, checker, checker_env >>

(* parse_coverage: a subscript raises KeyError, which main does not catch *)
LoadCoverageMissingKey ==
    /\ pc = "load"
    /\ raw_data.valid /\ ParseError(raw_data) = "KeyError"
    /\ Raise("KeyError")
    /\ UNCHANGED << inputs, fs, idle, checker, checker_env >>

(* load_coverage returns the parsed report *)
LoadCoverage ==
    /\ pc = "load"
    /\ raw_data.valid /\ ParseError(raw_data) = "none"
    /\ report' = parse_coverage(raw_data)
    /\ pc' = "agent"
    /\ UNCHANGED << mode, max_retries, run, openroad, texts, command, argv, raw_data, kept, fix, sanitized,
                    exc, exit_code, fs, idle, checker, checker_env >>

(* main of gen_seed.py: agent = CodeGeneratorAgent(...) *)
ConstructAgent ==
    /\ pc = "agent"
    /\ pc' = "start"
    /\ UNCHANGED << inputs, exc, exit_code, fs, idle, checker, checker_env >>

\* validate_args of gen_snippet.py returns args and not None
SnippetArgsValid ==
    /\ Exists(fs, argv.target)
    /\ Resolve(fs, argv.target) # Resolve(fs, argv.output)

(* main of gen_snippet.py: validate_args returned None *)
SnippetArgsRejected ==
    /\ pc = "main" /\ command = "snippet"
    /\ ~SnippetArgsValid
    /\ Exit(1)
    /\ UNCHANGED << inputs, fs, idle, checker, checker_env >>

(* main of gen_snippet.py: the agent is made and generate_code is called *)
SnippetStart ==
    /\ pc = "main" /\ command = "snippet"
    /\ SnippetArgsValid
    /\ target_file' = argv.target /\ output_file' = argv.output
    /\ pc' = "gc_read"
    /\ UNCHANGED << inputs, exc, exit_code, fs, targets, ti, counters, system_prompts,
                    current_prompt, attempt, generated_code, lint, checker, checker_env,
                    llmLocals, history >>

\* validate_args of verify_code.py returns args and not None
VerifyArgsValid ==
    /\ Exists(fs, argv.target)
    /\ \A i \in 1..Len(argv.library.val) : Exists(fs, argv.library.val[i])

(* main of verify_code.py: validate_args returned None *)
VerifyArgsRejected ==
    /\ pc = "main" /\ command = "verify"
    /\ ~VerifyArgsValid
    /\ Exit(2)
    /\ UNCHANGED << inputs, fs, idle, checker, checker_env >>

(* main of verify_code.py: verify_code finds no checker *)
VerifyUnavailable ==
    /\ pc = "main" /\ command = "verify"
    /\ VerifyArgsValid
    /\ ~openroad
    /\ Raise("RuntimeError")
    /\ UNCHANGED << inputs, fs, idle, checker, checker_env >>

(* main of verify_code.py: the checker runs; exit with 0 or 1 by its verdict *)
VerifyRun ==
    /\ pc = "main" /\ command = "verify"
    /\ VerifyArgsValid
    /\ openroad
    /\ \E result \in OracleResults :
          /\ checker' = result
          /\ checker_env' = CheckerEnvironment(fs, argv.target, argv.library.val)
          /\ lint' = HandleResult(result)
          /\ Exit(IF HandleResult(result).success THEN 0 ELSE 1)
    /\ UNCHANGED << inputs, fs, targets, ti, counters, target_file, output_file,
                    system_prompts, current_prompt, attempt, generated_code, llmLocals,
                    history >>

NextMain ==
    \/ SeedLibraryOmitted \/ SeedArgsRejected \/ SeedArgsAccepted
    \/ LoadCoverageNotJson \/ LoadCoverageBadKey \/ LoadCoverageMissingKey
    \/ LoadCoverage \/ ConstructAgent
    \/ SeedStart
    \/ SnippetArgsRejected \/ SnippetStart
    \/ VerifyArgsRejected \/ VerifyUnavailable \/ VerifyRun

Next ==
    \/ SeedStart
    \/ RcFileMissing \/ RcFileTooLarge \/ RcFunctionOpenFails \/ RcFunctionNoSnippet
    \/ RcSkipExisting \/ RcGenerate \/ RcReturn \/ RcDone
    \/ GcReadFails \/ GcRead \/ GcInvoke
    \/ CompletionRateLimit \/ CompletionNotFound \/ CompletionResponse
    \/ CompletionExhausted \/ InvokeReturn
    \/ GcEmpty \/ GcWrite \/ GcVerifyUnavailable \/ GcVerifyReject \/ GcVerifyAccept
    \/ GcSymlinkFails \/ GcSymlink \/ GcExhausted \/ GcRename \/ GcRenameFails
    \/ GcReturnNone
    \/ SummaryDivisionByZero \/ SummaryExit
    \/ EnvRemoveSource

Spec == Init /\ [][Next]_vars

(* invoke_llm alone, at the return of completion, for every content of the model *)
InitPost ==
    /\ mode = "file" /\ max_retries = 0
    /\ command = "seed" /\ argv = DefaultSeedArgs
    /\ raw_data = ReportA /\ report = parse_coverage(ReportA)
    /\ kept = NoFiles /\ fix = NoFix /\ sanitized = NoName
    /\ fs = OnlyA /\ openroad = TRUE /\ texts = {}
    /\ run = 1 /\ exc = "none" /\ exit_code = -1
    /\ targets = << >> /\ ti = 1 /\ success = 0 /\ failure = 0 /\ skipped = 0
    /\ accepted = {}
    /\ target_file = NoPath /\ output_file = NoPath /\ system_prompts = NoSystemPrompts
    /\ current_prompt = NoPrompt
    /\ attempt = 0 /\ generated_code = None /\ lint = NoLint /\ checker = NoResult /\ checker_env = NoEnv
    /\ messages = NoMessages /\ llm_attempt = 0
    /\ requests = << NoMessages >> /\ slept = << >> /\ calls = << >> /\ outcomes = << >>
    /\ pc = "invoke_return"
    /\ content \in RawContents

SpecPost == InitPost /\ [][InvokeReturn]_vars

NextRerun == Next \/ Rerun

SpecRerun == InitRerun /\ [][NextRerun]_vars

(* The inputs of the commands *)

SourceC == MkPath("src", << "c", ".", "c", "p", "p" >>)
SourceD == MkPath("src", << "d", ".", "c", "p", "p" >>)

\* a candidate on disk, and a link to it
DefFile == MkPath("out", << "x", ".", "0", ".", "d", "e", "f" >>)
DefLink == MkPath("out", << "x", ".", "d", "e", "f" >>)

\* the header next to a.cpp
SourceAH == MkPath("src", << "a", ".", "h" >>)

\* every file the commands name
AllFiles ==
    PlainSources
        @@ (SourceAH :> RegularFile(DataB, Len(DataB)))
        @@ (SourceC :> RegularFile(DataA, Len(DataA)))
        @@ (SourceD :> RegularFile(DataB, Len(DataB)))
        @@ (LibA :> RegularFile(<< "l" >>, 1)) @@ (LibB :> RegularFile(<< "m" >>, 1))
        @@ (DefFile :> RegularFile(DesignText, Len(DesignText)))
        @@ (DefLink :> SymLink(DefFile))

\* all files; one source, the report, or a library file missing; a library
\* file that is a link
MainFileSystems ==
    { AllFiles, FsRemove(AllFiles, SourceB), FsRemove(AllFiles, CoverageJson),
      FsRemove(AllFiles, LibB), FsSymlink(FsRemove(AllFiles, LibA), LibA, LibB) }

\* the lines of a file: the keys start at first, the counts are given
LineItems(first, counts) ==
    [i \in 1..Len(counts) |-> Item(IntToStr(first + i - 1), counts[i])]

\* four files at 40 %, 0 % (no line), 20 % and 100 % of their lines
ReportCoverage ==
    Json(<< RawSource(SourceA, << Item(<< "9" >>, << 1, 0 >>), Item(<< "1", "2" >>, << 0 >>) >>,
                      << Fn(<< "f" >>, 1, 0), Fn(<< "g" >>, 2, 2) >>,
                      LineItems(8, << 0, 3, 0, 1, 0 >>)),
            RawSource(SourceB, << >>,
                      << Fn(<< "h" >>, 1, 0), Fn(<< "k" >>, 1, 0) >>, << >>),
            RawSource(SourceC, << >>, << >>, LineItems(1, << 7, 0, 0, 0, 0 >>)),
            RawSource(SourceD, << Item(<< "1", "0", "0" >>, << 2, 2 >>) >>,
                      << Fn(<< "m" >>, 1, 0) >>,
                      LineItems(98, << 1, 1, 1, 1, 1 >>)) >>)

\* a report with a line key that is no number
ReportBadKey ==
    Json(<< RawSource(SourceA, << >>, << Fn(<< "f" >>, 1, 0) >>,
                      << Item(<< "1" >>, 0), Item(<< "x" >>, 1) >>) >>)

\* a report with a branch key that is no number, after a file that is as it should be
ReportBadBranch ==
    Json(<< RawSource(SourceA, BranchesOfLine2, << Fn(<< "f" >>, 1, 0) >>, LinesOneOfThree),
            RawSource(SourceB, << Item(<< "2", "a" >>, << 0, 1 >>) >>, << >>,
                      LinesOneOfThree) >>)

\* reports that are JSON of another shape: no "sources", a file without the ""
\* wrapper, and a file without one of its three maps
ReportNoSources == [valid |-> TRUE]
ReportNoWrapper ==
    Json(<< RawSource(SourceA, BranchesOfLine2, << Fn(<< "f" >>, 1, 0) >>, LinesOneOfThree),
            [file |-> SourceB] >>)
ReportNoBranches ==
    Json(<< [file |-> SourceA,
             unnamed |-> [functions |-> << Fn(<< "f" >>, 1, 0) >>, lines |-> LinesOneOfThree]] >>)
ReportNoLines ==
    Json(<< [file |-> SourceA,
             unnamed |-> [branches |-> BranchesOfLine2, functions |-> << Fn(<< "f" >>, 1, 0) >>]] >>)
ReportNoFunctions ==
    Json(<< [file |-> SourceA,
             unnamed |-> [branches |-> BranchesOfLine2, lines |-> LinesOneOfThree]] >>)

\* a source and its header, and two overloads of one function, none executed
ReportOverloads ==
    Json(<< RawSource(SourceA, << >>,
                      << Fn(<< "f", "(", "a", ")" >>, 1, 0),
                         Fn(<< "f", "(", "a", "&", ")" >>, 1, 0) >>,
                      LinesOneOfThree),
            RawSource(SourceAH, << >>, << >>, LinesOneOfThree) >>)

MalformedReports ==
    { ReportBadKey, ReportBadBranch, ReportNoSources, ReportNoWrapper, ReportNoBranches,
      ReportNoLines, ReportNoFunctions }

MainReports == { ReportCoverage, ReportAB, ReportOverloads, NotJson } \cup MalformedReports

\* the values of --threshold and --min-threshold
Thresholds == { -1, 0, 20, 40, COVERAGE_MAX, COVERAGE_MAX + 1 }

\* --library: left out, given with no file, given with two files
Libraries == { None, Some(<< >>), Some(<< LibA, LibB >>), Some(<< LibB, LibA >>) }

\* the command lines of the snippet and verify commands
FileArgs(file, output, library) ==
    [threshold |-> 40, min_threshold |-> 0, fastcov_json |-> CoverageJson,
     library |-> library, target |-> file, output |-> output]

(* a command of the program at the start of its main *)
InitMain ==
    /\ pc = "main" /\ run = 1 /\ exc = "none" /\ exit_code = -1
    /\ report = << >> /\ kept = NoFiles /\ texts = OneText
    /\ targets = << >> /\ ti = 1 /\ success = 0 /\ failure = 0 /\ skipped = 0
    /\ accepted = {}
    /\ AgentIdle /\ fix = NoFix /\ sanitized = NoName
    /\ fs \in MainFileSystems
    /\ max_retries = 1
    /\ \/ /\ command = "seed"
          /\ mode \in { "file", "function" }
          /\ raw_data \in MainReports
          /\ openroad = TRUE
          /\ \E t \in Thresholds, m \in Thresholds, l \in Libraries : argv = SeedArgs(t, m, l)
       \/ /\ command = "snippet"
          /\ mode = "file" /\ raw_data = NotJson /\ openroad = TRUE
          /\ \E t \in { SourceA, SourceB, DefLink }, o \in { DefFile, DefLink, SourceA } :
                argv = FileArgs(t, o, Some(<< LibA >>))
       \/ /\ command = "verify"
          /\ mode = "file" /\ raw_data = NotJson
          /\ openroad \in BOOLEAN
          /\ \E t \in { DefFile, DefLink, SourceB }, l \in Libraries :
                argv = FileArgs(t, DefFile, l)

SpecMain == InitMain /\ [][NextMain]_vars

-----------------------------------------------------------------------------
(* Properties *)

IsInvoke(c) == c.op = "invoke_llm"
IsVerify(c) == c.op = "verify_code"
InvokeCalls == SelectSeq(calls, IsInvoke)
VerifyCalls == SelectSeq(calls, IsVerify)

StrictlyIncreasing(cs) == \A i, j \in 1..Len(cs) : i < j => cs[i].attempt < cs[j].attempt

AllOutcomes(o) == Len(outcomes) = max_retries + 1 /\ \A i \in 1..Len(outcomes) : outcomes[i] = o

LastOutcome == IF outcomes = << >> THEN "none" ELSE outcomes[Len(outcomes)]

\* the names of the output layout: <output-stem>.<i><output-suffix> and
\* <output-stem>.failed.<i><output-suffix>
LayoutAttemptPath(out, i) ==
    MkPath(out.dir, Stem(out.name) \o << "." >> \o IntToStr(i) \o Suffix(out.name))

LayoutFailedPath(out, i) ==
    MkPath(out.dir, Stem(out.name) \o << ".", "f", "a", "i", "l", "e", "d", "." >>
                        \o IntToStr(i) \o Suffix(out.name))

\* a step of the program, as opposed to a step of the environment
ProgramStep == pc' # pc \/ ti' # ti \/ attempt' # attempt \/ llm_attempt' # llm_attempt

\* C1: one call of generate_code makes at most max_retries + 1 invoke_llm calls
\* and at most max_retries + 1 verify_code calls, with attempt indices in
\* 0..max_retries, strictly increasing.
C1_RetryBudget ==
    /\ Len(InvokeCalls) <= max_retries + 1
    /\ Len(VerifyCalls) <= max_retries + 1
    /\ \A i \in 1..Len(calls) : calls[i].attempt \in 0..max_retries
    /\ StrictlyIncreasing(InvokeCalls)
    /\ StrictlyIncreasing(VerifyCalls)

C1_Witness ==
    /\ pc = "rc_return" /\ max_retries = 2
    /\ Len(InvokeCalls) = 3 /\ Len(VerifyCalls) = 3

\* generate_code is about to return after every attempt was rejected
AllRejectedReturned == pc = "rc_return" /\ AllOutcomes("rejected")

\* C2: when every attempt gave a non-empty candidate that the oracle rejected,
\* generate_code returns None, exactly the failed files 0..max_retries of the
\* output exist, no attempt file of the output remains, and the controller
\* adds 1 to failure and 0 to success.
C2_ExhaustionArtifacts ==
    /\ [](AllRejectedReturned =>
            /\ generated_code = None
            /\ \A i \in 0..(MaxRetriesBound + 1) :
                  /\ LExists(fs, LayoutFailedPath(output_file, i)) <=> i <= max_retries
                  /\ ~LExists(fs, LayoutAttemptPath(output_file, i)))
    /\ [][AllRejectedReturned => failure' = failure + 1 /\ success' = success]_vars

C2_Witness ==
    /\ AllRejectedReturned /\ max_retries = 2
    /\ \A i \in 0..2 : LExists(fs, LayoutFailedPath(output_file, i))

\* C3 (as claimed): when every attempt returned an empty response, all
\* max_retries + 1 attempts were made with the initial prompt, the oracle was
\* never called, and generate_code ends by returning None, not by an exception.
C3_EmptyResponsesExhaust ==
    AllOutcomes("empty") =>
        /\ Len(InvokeCalls) = max_retries + 1
        /\ \A i \in 1..Len(InvokeCalls) : InvokeCalls[i].prompt_kind = "initial"
        /\ VerifyCalls = << >>
        /\ exc = "none"
        /\ pc = "rc_return" => generated_code = None

\* generate_code has finished after the oracle accepted a candidate
AcceptedDone == LastOutcome = "accepted" /\ pc \in { "rc_return", "crashed" }

\* C4 (as claimed): once generate_code has finished after an acceptance, the
\* canonical output path holds the accepted candidate and the target file is
\* linked to that output.
C4_AcceptedIsCanonical ==
    AcceptedDone =>
        /\ Exists(fs, output_file)
        /\ fs[Resolve(fs, output_file)].data
              \in { generated_code.val, generated_code.val \o << "\n" >> }
        /\ LExists(fs, target_file)
        /\ fs[target_file].kind = "link"
        /\ Resolve(fs, fs[target_file].to) = Resolve(fs, output_file)

\* C5 (as claimed): when the oracle has accepted and the target file is on
\* disk, the next step of generate_code returns the accepted text with no
\* further call, and the controller then adds 1 to success and 0 to failure.
C5_AcceptReturns ==
    [][/\ (pc = "gc_accept" /\ LExists(fs, target_file) /\ ProgramStep) =>
            /\ pc' = "rc_return" /\ exc' = "none"
            /\ generated_code' = generated_code /\ calls' = calls
       /\ (pc = "rc_return" /\ LastOutcome = "accepted") =>
            /\ success' = success + 1 /\ failure' = failure]_vars

\* C6 (as claimed): after a run in which the oracle accepted a candidate for an
\* output, a later run makes no generation or verification call for that
\* output and leaves the accepted candidate's file as it was.
C6_SecondProcessingSkips ==
    \A a \in accepted :
        a.run < run =>
            /\ output_file = a.out => calls = << >>
            /\ LExists(fs, a.file) /\ fs[a.file].data = a.code \o << "\n" >>

\* C7 (as claimed): whenever the canonical output of the target the controller
\* is at exists, the controller's step leaves the counts and the files alone
\* and does not invoke the agent.
C7_SkipWheneverOutputExists ==
    [][(AtTarget /\ Exists(fs, TargetOutput) /\ ProgramStep) =>
            /\ success' = success /\ failure' = failure
            /\ fs' = fs
            /\ pc' # "gc_read"]_vars

\* C7 (amended): when the target passed the checks that come before the output
\* check (the source file exists; file mode: it is not larger than
\* MAX_FILE_SIZE_BYTES; function mode: its snippet is extracted) and the
\* canonical output exists, the controller's step leaves the counts and the
\* files alone, does not invoke the agent and moves to the next target.
C7_SkipUsableTarget ==
    [][(TargetUsable /\ Exists(fs, TargetOutput) /\ ProgramStep) =>
            /\ success' = success /\ failure' = failure
            /\ fs' = fs
            /\ pc' = "rc_loop" /\ ti' = ti + 1
            /\ calls' = calls /\ UNCHANGED agentLocals]_vars

C7_Witness == skipped > 0 /\ pc = "rc_loop" /\ success = 0 /\ failure = 0 /\ ti > 1

\* C8: the prompt of attempt 0 is the initial prompt; the prompt of the attempt
\* after a rejected one is the feedback prompt of that attempt's candidate (the
\* text in its attempt file) and diagnostic; the prompt of the attempt after an
\* empty response is the initial prompt.
C8_PromptSequence ==
    pc = "completion" =>
        /\ Len(outcomes) = attempt
        /\ messages.user =
              IF attempt > 0 /\ outcomes[attempt] = "rejected"
              THEN [kind |-> "feedback", target_file |-> target_file.name,
                    generated_code |-> generated_code.val, error_summary |-> lint.stderr]
              ELSE [kind |-> "initial", target_file |-> target_file.name,
                    generated_code |-> << >>, error_summary |-> << >>]
        /\ (attempt > 0 /\ outcomes[attempt] = "rejected") =>
              fs[LayoutAttemptPath(output_file, attempt - 1)].data
                  = generated_code.val \o << "\n" >>

C8_Witness ==
    /\ pc = "completion" /\ attempt = 2
    /\ outcomes = << "rejected", "empty" >>
    /\ messages.user.kind = "initial"

RECURSIVE SumSeq(_)
SumSeq(q) == IF q = << >> THEN 0 ELSE Head(q) + SumSeq(Tail(q))

RECURSIVE GeometricSum(_)
\* the sum of 60 * 6^i for i in [0, n)
GeometricSum(n) == IF n = 0 THEN 0 ELSE GeometricSum(n - 1) + 60 * (6 ^ (n - 1))

\* C9: within one completion call the n-th rate-limit signal (attempt index
\* n - 1) is followed by a sleep of exactly 60 * 6^(n-1) seconds, there are at
\* most 6 of them, and the time slept is at least the sum of 60 * 6^i, i < N.
C9_BackoffLaw ==
    /\ Len(slept) <= 6
    /\ \A n \in 1..Len(slept) : slept[n] = 60 * (6 ^ (n - 1))
    /\ SumSeq(slept) >= GeometricSum(Len(slept))

C9_Witness == Len(slept) = 6 /\ SumSeq(slept) = 559860

\* every request of the completion call was answered by a rate-limit signal
AllRateLimited == Len(slept) = Len(requests)

\* C10: when every request of a completion call was answered by a rate-limit
\* signal, the call has issued exactly 6 requests when it ends, each with the
\* same messages, and invoke_llm returns the empty string without raising.
C10_RateLimitExhaustion ==
    /\ (pc = "completion" /\ AllRateLimited) => Len(requests) <= 6
    /\ (pc = "gc_check" /\ AllRateLimited) =>
            /\ Len(requests) = 6
            /\ \A i \in 1..Len(requests) : requests[i] = messages
            /\ generated_code = Some(<< >>)
            /\ exc = "none"

C10_Witness == pc = "gc_check" /\ AllRateLimited /\ Len(requests) = 6

-----------------------------------------------------------------------------
(* Generation Client and Verification Oracle *)

\* C11: when completion met a model-not-found signal, the process has ended
\* with that exception: the signal's request is the last one, every earlier
\* request was followed by a sleep and this one by none, no content was
\* returned, the attempt has no outcome and the target is in no count.
C11_NotFoundIsFatal ==
    exc = "NotFoundError" =>
        /\ pc = "crashed" /\ exit_code = 1
        /\ Len(requests) = Len(slept) + 1
        /\ Len(requests) <= 6
        /\ content = None
        /\ Len(outcomes) = attempt /\ Len(InvokeCalls) = attempt + 1
        /\ success + failure + skipped = ti - 1

C11_Witness == exc = "NotFoundError" /\ Len(slept) = 2 /\ attempt = 1

\* a step of completion in which a request got an answer that is no exception
AnsweredStep ==
    pc = "completion" /\ requests' # requests /\ slept' = slept /\ exc' = "none"

\* C12: an answer that is neither a rate-limit nor a not-found signal ends the
\* loop of completion: the content of the first choice is returned when it is
\* a text, None otherwise, and the call issues no further request.
C12_ResponseEndsLoop ==
    /\ [](\A resp \in OkResponses(texts) :
            CompletionResult(resp) =
                IF Len(resp.choices) >= 1 /\ ~resp.choices[1].isNone
                THEN Some(resp.choices[1].val) ELSE None)
    /\ [][AnsweredStep =>
            /\ pc' = "invoke_return"
            /\ Len(requests') = Len(requests) + 1
            /\ content' \in { None } \cup { Some(t) : t \in texts }]_vars
    /\ [][pc # "completion" => (requests' = requests \/ requests' = << >>)]_vars

C12_Witness ==
    /\ pc = "invoke_return" /\ Len(slept) = 1 /\ Len(requests) = 2
    /\ content = Some(<< "A" >>)

\* the result of the post-processing, step by step
C13_Expected(raw) ==
    LET trimmed == Strip(raw)
        long == FENCE \o << "d", "e", "f" >>
        opened ==
            IF StartsWith(trimmed, long)
            THEN Strip(SubSeq(trimmed, Len(long) + 1, Len(trimmed)))
            ELSE IF StartsWith(trimmed, FENCE)
                 THEN Strip(SubSeq(trimmed, Len(FENCE) + 1, Len(trimmed)))
                 ELSE trimmed
    IN  IF EndsWith(opened, FENCE)
        THEN Strip(SubSeq(opened, 1, Len(opened) - Len(FENCE)))
        ELSE opened

\* C13: for a non-empty content invoke_llm returns the content trimmed, with
\* the first matching fence prefix removed (the one with "def" tried first),
\* then one closing fence removed, trimmed after each removal; the fenced
\* design gives exactly the design text.
C13_PostProcessing ==
    (pc = "gc_check" /\ Truthy(content)) =>
        /\ generated_code = Some(C13_Expected(content.val))
        /\ content.val = FencedDesign => generated_code.val = DesignText

C13_Witness ==
    /\ pc = "gc_check" /\ content = Some(FencedDesign)
    /\ generated_code = Some(DesignText)

\* C14: verify_code reports success exactly when the checker process exited
\* with status 0, whatever it wrote on its two streams.
C14_AcceptedIffExitZero ==
    checker # NoResult => (lint.success <=> checker.returncode = 0)

C14_Witness ==
    /\ checker.returncode = 0 /\ lint.success
    /\ Strip(checker.stdout) # << >> /\ Strip(checker.stderr) # << >>

\* C15 (as claimed): the diagnostic of verify_code is the trimmed standard
\* error when that is not empty, else the trimmed standard output.
C15_DiagnosticPrefersStderr ==
    checker # NoResult =>
        lint.stderr = IF Strip(checker.stderr) # << >> THEN Strip(checker.stderr)
                      ELSE Strip(checker.stdout)

\* C16 (as claimed): without the checker executable no target is processed:
\* no generation call is made, no request is sent, nothing is written to the
\* output directory, and the run does not end normally.
C16_NoWorkWithoutChecker ==
    ~openroad =>
        /\ calls = << >> /\ requests = << >>
        /\ \A p \in DOMAIN fs : p.dir # OutputDir
        /\ pc # "exited"

-----------------------------------------------------------------------------
(* Run Controller *)

\* the source file of the target is gone or is larger than the ceiling
SourceUnusable ==
    \/ ~Exists(fs, target.file)
    \/ fs[Resolve(fs, target.file)].size > MAX_FILE_SIZE_BYTES

\* C17 (as claimed): at a target whose source file is gone or larger than
\* MAX_FILE_SIZE_BYTES, in either mode, the controller's step adds 1 to
\* failure, does not invoke the agent and moves to the next target.
C17_UnusableSourceCounted ==
    [][(AtTarget /\ SourceUnusable /\ ProgramStep) =>
            /\ failure' = failure + 1 /\ success' = success
            /\ pc' = "rc_loop" /\ ti' = ti + 1
            /\ exc' = "none" /\ fs' = fs]_vars

\* C18 (as claimed): with success and failure both zero the summary raises
\* nothing and the run exits normally.
C18_EmptySummary ==
    [][(pc = "summary" /\ success + failure = 0) =>
            (pc' = "exited" /\ exit_code' = 0 /\ exc' = "none")]_vars

\* C19 (as claimed): with the checker installed, a run in which the agent has
\* made attempts does not end by an exception other than model-not-found, and
\* a run that has exited did so through the summary with its exit code.
C19_RunEndsThroughSummary ==
    /\ (openroad /\ outcomes # << >>) => exc \in { "none", "NotFoundError" }
    /\ pc = "exited" => exit_code = (IF failure # 0 THEN 1 ELSE 0)

\* the process is handling a soft failure of the current target
SoftFailure ==
    \/ AtTarget /\ ~TargetUsable
    \/ pc = "gc_check" /\ Strip(generated_code.val) = << >>
    \/ pc = "gc_loop" /\ outcomes # << >>
    \/ pc = "gc_rename"
    \/ pc = "rc_return" /\ ~CountsAsSuccess(generated_code)

\* C20 (as claimed): the steps that handle a missing or oversized source file,
\* an empty generation or a rejection raise nothing, and the controller, once
\* generate_code has returned None, counts the target and moves to the next.
C20_SoftFailuresContinue ==
    [][(SoftFailure /\ ProgramStep) =>
            /\ exc' = "none" /\ pc' # "crashed"
            /\ pc = "rc_return" =>
                  (failure' = failure + 1 /\ pc' = "rc_loop" /\ ti' = ti + 1)]_vars

\* C21 (as claimed): the step that ends a run at the summary gives the exit
\* code 1 when failure is at least 1 and 0 when failure is 0, whatever
\* success is and however many targets were skipped.
C21_ExitCodeByFailures ==
    [][pc = "summary" => exit_code' = (IF failure >= 1 THEN 1 ELSE 0)]_vars

-----------------------------------------------------------------------------
(* Command line, coverage report and selection *)

\* the thresholds of the command line are no valid pair
InvalidThresholdPair ==
    \/ argv.threshold < 0 \/ argv.threshold > 100
    \/ argv.min_threshold < 0 \/ argv.min_threshold > 100
    \/ argv.min_threshold >= argv.threshold

\* C22: a seed run, in file or function mode, whose thresholds are outside
\* [0, 100] or have min_threshold >= threshold ends with a non-zero exit code,
\* the coverage report not loaded, no agent made, no target selected and no
\* generation or verification call made.
C22_InvalidThresholdsRejected ==
    (command = "seed" /\ InvalidThresholdPair /\ pc # "main") =>
        /\ pc \in { "exited", "crashed" }
        /\ exit_code > 0
        /\ report = << >> /\ targets = << >>
        /\ calls = << >> /\ requests = << >> /\ checker = NoResult

C22_Witness ==
    /\ command = "seed" /\ pc = "exited" /\ exit_code = 1
    /\ argv.min_threshold = argv.threshold /\ argv.threshold = 40
    /\ Exists(fs, argv.fastcov_json)
    /\ ~argv.library.isNone
    /\ \A i \in 1..Len(argv.library.val) : Exists(fs, argv.library.val[i])

\* the step in which main of the seed command selects its targets
SelectionStep(m) == pc = "start" /\ mode = m /\ pc' = "rc_loop"

\* the place of a file in the report
ReportIndex(file) == CHOOSE i \in 1..Len(report) : report[i].file = file

\* the file i of the report is on disk with min_threshold <= coverage% < threshold,
\* where coverage% is covered / total * 100, and 0 for a file with no line
InBand(i) ==
    LET total == Len(report[i].lines)
        covered == Cardinality({ j \in 1..total : report[i].lines[j].val > 0 })
    IN  /\ Exists(fs, report[i].file)
        /\ IF total = 0
           THEN argv.min_threshold <= 0 /\ 0 < argv.threshold
           ELSE /\ argv.min_threshold * total <= covered * 100
                /\ covered * 100 < argv.threshold * total

\* C23: in file mode a file of the report is in the target list if and only if
\* it exists on disk and min_threshold <= coverage% < threshold, and the list
\* is in the order of the report.
C23_FileSelection ==
    [][SelectionStep("file") =>
          /\ \A i \in 1..Len(report) :
                InBand(i) <=> \E k \in 1..Len(targets') : targets'[k].file = report[i].file
          /\ \A k \in 1..Len(targets') :
                \E i \in 1..Len(report) : targets'[k].file = report[i].file
          /\ \A k, l \in 1..Len(targets') :
                k < l => ReportIndex(targets'[k].file) < ReportIndex(targets'[l].file)]_vars

\* a.cpp, at exactly 40 %, is left out by --threshold 40 while c.cpp is taken
C23_Witness ==
    /\ command = "seed" /\ mode = "file" /\ pc = "rc_loop"
    /\ raw_data = ReportCoverage /\ argv.threshold = 40 /\ argv.min_threshold = 20
    /\ Exists(fs, SourceA)
    /\ \E k \in 1..Len(targets) : targets[k].file = SourceC
    /\ \A k \in 1..Len(targets) : targets[k].file # SourceA

\* the functions of the report with execution_count 0 in a file on disk, by
\* their place: << file index, function index >>
ZeroPlaces ==
    UNION { { << i, j >> : j \in { n \in 1..Len(report[i].functions) :
                                      report[i].functions[n].execution_count = 0 } } :
            i \in { m \in 1..Len(report) : Exists(fs, report[m].file) } }

\* the target that the function at a place gives
TargetAt(place) ==
    [file |-> report[place[1]].file,
     function_name |-> report[place[1]].functions[place[2]].name,
     start_line |-> report[place[1]].functions[place[2]].start_line]

\* place p comes before place q: by file, then by function
Before(p, q) == p[1] < q[1] \/ (p[1] = q[1] /\ p[2] < q[2])

\* C24: in function mode the target list has exactly one entry (file, name,
\* start_line) for each function with execution_count 0 in a file that is on
\* disk, in the order of the files and then of the functions in the report;
\* a missing file gives no entry and no change of failure.
C24_FunctionSelection ==
    [][SelectionStep("function") =>
          /\ Len(targets') = Cardinality(ZeroPlaces)
          /\ \A p \in ZeroPlaces :
                Cardinality({ k \in 1..Len(targets') : targets'[k] = TargetAt(p) }) = 1
          /\ \A p, q \in ZeroPlaces :
                Before(p, q) =>
                    (CHOOSE k \in 1..Len(targets') : targets'[k] = TargetAt(p))
                        < (CHOOSE k \in 1..Len(targets') : targets'[k] = TargetAt(q))
          /\ failure' = failure /\ success' = success]_vars

\* b.cpp, with two uncovered functions, is missing; a.cpp and d.cpp give one each
C24_Witness ==
    /\ command = "seed" /\ mode = "function" /\ pc = "rc_loop"
    /\ raw_data = ReportCoverage /\ ~Exists(fs, SourceB)
    /\ Len(targets) = 2 /\ targets[1].file = SourceA /\ targets[2].file = SourceD
    /\ failure = 0

\* the items of a parsed dict are those of the raw one, in order, each under
\* the integer that its text key writes
SameItems(parsed, items) ==
    /\ Len(parsed) = Len(items)
    /\ \A j \in 1..Len(items) :
          /\ parsed[j].key \in Int
          /\ IntToStr(parsed[j].key) = items[j].key
          /\ parsed[j].val = items[j].val

\* C25: parse_coverage gives, for every source path of the raw report and in
\* the same order, a record whose line and branch keys are the integers of the
\* raw text keys with the same counts, and whose functions are unchanged.
C25_ParseCoverage ==
    [][(pc = "load" /\ pc' = "agent") =>
          /\ Len(report') = Len(raw_data.sources)
          /\ \A i \in 1..Len(raw_data.sources) :
                /\ report'[i].file = raw_data.sources[i].file
                /\ report'[i].functions = raw_data.sources[i].unnamed.functions
                /\ SameItems(report'[i].lines, raw_data.sources[i].unnamed.lines)
                /\ SameItems(report'[i].branches, raw_data.sources[i].unnamed.branches)]_vars

\* the report with line keys 8..12 and 98..102 was parsed
C25_Witness ==
    /\ pc = "agent" /\ raw_data = ReportCoverage
    /\ Len(report) = 4
    /\ report[1].lines[5].key = 12 /\ report[4].lines[5].key = 102
    /\ report[4].branches[1].key = 100

\* the command line does not pass validate_args of its command
ArgsInvalid ==
    \/ command = "seed" /\ ~argv.library.isNone /\ ~SeedArgsValid
    \/ command = "snippet" /\ ~SnippetArgsValid
    \/ command = "verify" /\ ~VerifyArgsValid

\* C28 (as claimed): a seed, snippet or verify command whose arguments are
\* invalid exits with a code that is neither 0 nor 1.
C28_InvalidArgsExitCode ==
    [][(pc = "main" /\ ArgsInvalid) =>
          (pc' = "exited" /\ exit_code' \notin { 0, 1 })]_vars

RECURSIVE SplitSpaces(_)
\* the pieces of a text between its spaces
SplitSpaces(text) ==
    IF \A i \in 1..Len(text) : text[i] # " " THEN << text >>
    ELSE LET i == CHOOSE n \in 1..Len(text) :
                      text[n] = " " /\ \A m \in 1..(n - 1) : text[m] # " "
         IN  << SubSeq(text, 1, i - 1) >> \o SplitSpaces(SubSeq(text, i + 1, Len(text)))

\* the text is the absolute path of the file that p lands on
IsAbsoluteOf(text, p) ==
    LET q == IF LExists(fs, p) /\ fs[p].kind = "link" THEN fs[p].to ELSE p
    IN  /\ text = AbsoluteText(fs, p)
        /\ text[1] \in { "/work", "/pdk" }
        /\ SubSeq(text, Len(text) - Len(q.name) + 1, Len(text)) = q.name

\* C29: the checker of the verify command gets exactly the two variables
\* DEF_FILE, the absolute path of the candidate, and LEF_FILES, the absolute
\* paths of the library files in the given order with one space between two.
C29_CheckerEnvironment ==
    (command = "verify" /\ checker # NoResult) =>
        /\ DOMAIN checker_env = { "DEF_FILE", "LEF_FILES" }
        /\ IsAbsoluteOf(checker_env.DEF_FILE, argv.target)
        /\ LET library == argv.library.val
           IN  IF library = << >> THEN checker_env.LEF_FILES = << >>
               ELSE LET pieces == SplitSpaces(checker_env.LEF_FILES)
                    IN  /\ Len(pieces) = Len(library)
                        /\ \A i \in 1..Len(library) : IsAbsoluteOf(pieces[i], library[i])

\* a link to the candidate was verified with /pdk/b.lef before lib/a.lef
C29_Witness ==
    /\ command = "verify" /\ pc = "exited" /\ checker # NoResult
    /\ argv.target = DefLink
    /\ argv.library.val = << LibB, LibA >>
    /\ fs = AllFiles

-----------------------------------------------------------------------------
(* Outcomes and artifacts *)

\* only the last attempt of a call can be the accepted one
AtMostOneAcceptance ==
    \A i \in 1..Len(outcomes) : outcomes[i] = "accepted" => i = Len(outcomes)

\* generate_code has ended after an acceptance or after its last attempt
OutcomeDue ==
    /\ pc \notin { "gc_read", "gc_loop", "completion", "invoke_return", "gc_check", "gc_verify",
                   "gc_accept", "gc_rename" }
    /\ LastOutcome = "accepted" \/ Len(outcomes) = max_retries + 1

\* C26 (as claimed): a target whose processing has ended after an acceptance
\* or after the last attempt has exactly one outcome, the accepted text
\* returned or None returned for exhaustion; at most one attempt is accepted
\* and no attempt follows an acceptance.
C26_ExactlyOneOutcome ==
    /\ AtMostOneAcceptance
    /\ OutcomeDue =>
          /\ pc = "rc_return" /\ exc = "none"
          /\ (LastOutcome = "accepted") <=> Truthy(generated_code)
          /\ (LastOutcome # "accepted") <=> generated_code = None

\* C27 (as claimed): an attempt or failed-attempt file that an earlier run left
\* is still there with its content.
C27_ArtifactsKept ==
    \A p \in DOMAIN kept : LExists(fs, p) /\ fs[p] = kept[p]

\* every attempt was made, at least one was empty and one rejected, none accepted
MixedExhaustion ==
    /\ Len(outcomes) = max_retries + 1
    /\ \A i \in 1..Len(outcomes) : outcomes[i] \in { "empty", "rejected" }
    /\ \E i \in 1..Len(outcomes) : outcomes[i] = "empty"
    /\ \E i \in 1..Len(outcomes) : outcomes[i] = "rejected"

\* C30 (as claimed): after attempts of which some were empty and the others
\* rejected, generate_code raises nothing, and when it returns it returns
\* None, the file of every rejected attempt is under its failed name and no
\* file is under an attempt name.
C30_MixedExhaustionRenames ==
    MixedExhaustion =>
        /\ exc = "none"
        /\ pc = "rc_return" =>
              /\ generated_code = None
              /\ \A i \in 0..max_retries :
                    /\ ~LExists(fs, LayoutAttemptPath(output_file, i))
                    /\ outcomes[i + 1] = "rejected" =>
                          LExists(fs, LayoutFailedPath(output_file, i))

-----------------------------------------------------------------------------
(* Order of the steps of an attempt *)

\* the candidate of the current attempt is on disk under the attempt's name
CandidatePersisted ==
    /\ Strip(generated_code.val) # << >>
    /\ LExists(fs, current_file)
    /\ fs = WriteCode(fs, current_file, generated_code.val)

\* C31: within every attempt of generate_code the steps come in the order
\* generate, persist, verify: verify_code is called only after a non-empty
\* candidate of the same attempt was written to the attempt's indexed file, it
\* is called on that file, and the generation call of attempt i + 1 starts only
\* after the verification of attempt i has returned.
C31_GeneratePersistVerify ==
    /\ pc = "gc_verify" => CandidatePersisted
    /\ \A j \in 1..Len(calls) :
          IsVerify(calls[j]) =>
              /\ j > 1
              /\ IsInvoke(calls[j - 1])
              /\ calls[j - 1].attempt = calls[j].attempt
              /\ calls[j].file = AttemptFile(output_file, calls[j].attempt)
    /\ \A j \in 2..Len(calls) :
          IsInvoke(calls[j]) => calls[j].attempt = calls[j - 1].attempt + 1
    /\ pc \in { "completion", "invoke_return", "gc_check", "gc_verify" } =>
          /\ calls # << >>
          /\ calls[Len(calls)] = [op |-> "invoke_llm", attempt |-> attempt,
                                  prompt_kind |-> current_prompt.kind, file |-> NoPath]

C31_Witness ==
    /\ pc = "gc_verify"
    /\ attempt = 1
    /\ Len(VerifyCalls) = 1
    /\ CandidatePersisted

-----------------------------------------------------------------------------
(* The loop over the targets *)

\* the agent is at work for a target
InAgent ==
    pc \in { "gc_read", "gc_loop", "completion", "invoke_return", "gc_check", "gc_verify",
             "gc_accept", "gc_rename", "rc_return" }

\* the targets the loop is done with
Processed == ti - 1

\* one step of the loop over the targets
TallyStep ==
    /\ pc # "start" => targets' = targets
    /\ ti' \in { ti, ti + 1 }
    /\ success' \in { success, success + 1 }
    /\ failure' \in { failure, failure + 1 }
    /\ (success' - success) + (failure' - failure) + (skipped' - skipped) = ti' - ti
    /\ (InAgent' /\ ~InAgent) => (pc = "rc_loop" /\ ti' = ti /\ output_file' = TargetOutput)
    /\ (InAgent /\ pc' = "rc_loop") => (pc = "rc_return" /\ ti' = ti + 1)

\* C32: the Run Controller visits the targets in the order of the Target
\* Selector and invokes the agent at most once per target; success_count and
\* failure_count never decrease, each processed target changes at most one of
\* them, by exactly 1, and success_count + failure_count + the number of
\* skipped targets is the number of targets processed so far.
C32_TallyAndOrder ==
    /\ [](/\ success + failure + skipped = Processed
          /\ Processed <= Len(targets)
          /\ InAgent => (ti <= Len(targets) /\ output_file = TargetOutput))
    /\ [][TallyStep]_vars

C32_Witness ==
    /\ pc = "rc_loop"
    /\ Processed = 2
    /\ success = 1
    /\ failure = 1

-----------------------------------------------------------------------------
(* Reports of another shape *)

Range(q) == { q[i] : i \in 1..Len(q) }

\* the shape of a report: "sources", under it for every file the "" wrapper
\* with the three maps, and numbers as the keys of the lines and the branches
ShapeMatches(r) ==
    /\ "sources" \in DOMAIN r
    /\ \A i \in 1..Len(r.sources) :
          /\ "unnamed" \in DOMAIN r.sources[i]
          /\ { "branches", "functions", "lines" } \subseteq DOMAIN r.sources[i].unnamed
          /\ \A item \in Range(r.sources[i].unnamed.branches) : IsIntText(item.key)
          /\ \A item \in Range(r.sources[i].unnamed.lines) : IsIntText(item.key)

Malformed == command = "seed" /\ raw_data.valid /\ ~ShapeMatches(raw_data)

\* C33: a coverage report whose shape does not match (no "sources" entry, no ""
\* wrapper, a map that is missing, a line or branch key that is no number)
\* makes load_coverage raise; the error is propagated with no second try, and
\* the seed run ends with a code that is not zero before the agent is
\* constructed and before any target is processed.
C33_MalformedReportIsFatal ==
    /\ [](Malformed =>
            /\ pc \in { "main", "load", "exited", "crashed" }
            /\ pc \in { "exited", "crashed" } => exit_code # 0
            /\ report = << >> /\ targets = << >> /\ Processed = 0
            /\ success = 0 /\ failure = 0 /\ skipped = 0
            /\ calls = << >> /\ requests = << >>)
    /\ [][(Malformed /\ pc = "load") =>
            /\ pc' = "crashed"
            /\ exc' \in { "KeyError", "ValueError" }
            /\ exit_code' # 0]_vars

C33_Witness ==
    /\ Malformed
    /\ pc = "crashed"
    /\ exc = "KeyError"
    /\ exit_code = 1
    /\ "sources" \in DOMAIN raw_data

-----------------------------------------------------------------------------
(* Output files of the targets of one run *)

\* the canonical output of a target of the list
OutputOf(t) ==
    IF mode = "file" THEN FileOutput(t.file) ELSE FunctionOutput(t.file, t.function_name)

\* the attempt files and failed-attempt files of an output
ArtifactsOf(out) ==
    { AttemptFile(out, i) : i \in 0..max_retries } \cup { FailedFile(out, i) : i \in 0..max_retries }

\* C34: distinct targets of one run never share output files: two different
\* file targets, or two different function targets, of the same run have
\* different canonical output paths and disjoint sets of attempt and
\* failed-attempt paths.
C34_DistinctOutputs ==
    pc = "rc_loop" =>
        \A i, j \in 1..Len(targets) :
            targets[i] # targets[j] =>
                /\ OutputOf(targets[i]) # OutputOf(targets[j])
                /\ ArtifactsOf(OutputOf(targets[i])) \cap ArtifactsOf(OutputOf(targets[j])) = {}

-----------------------------------------------------------------------------
(* A target file that cannot be read *)

\* generate_code is at its first statement and open() will raise OSError
ReadWillFail == pc = "gc_read" /\ ~Exists(fs, target_file)

-----------------------------------------------------------------------------
(* The acceptance path and the earlier attempts *)

\* the attempts before the current one that the checker rejected
RejectedBefore == { i \in 0..(attempt - 1) : i + 1 <= Len(outcomes) /\ outcomes[i + 1] = "rejected" }

\* the current attempt was accepted and generate_code is on its way out
OnAcceptancePath == pc \in { "gc_accept", "rc_return", "crashed" } /\ LastOutcome = "accepted"

\* C36: when attempt i is accepted, the artifacts of the rejected attempts
\* before it stay on disk under their attempt-indexed names: the acceptance
\* path renames nothing to a failed name and deletes no artifact.
C36_AcceptanceKeepsEarlierAttempts ==
    /\ [](OnAcceptancePath =>
            \A i \in RejectedBefore :
                /\ LExists(fs, AttemptFile(output_file, i))
                /\ ~LExists(fs, FailedFile(output_file, i)))
    /\ [][(pc \in { "gc_verify", "gc_accept" } /\ OnAcceptancePath') =>
            /\ \A p \in DOMAIN fs \cap ArtifactsOf(output_file) :
                  p \in DOMAIN fs' /\ fs'[p] = fs[p]
            /\ \A i \in 0..max_retries :
                  LExists(fs', FailedFile(output_file, i)) => LExists(fs, FailedFile(output_file, i))]_vars

C36_Witness ==
    /\ pc = "rc_return" /\ LastOutcome = "accepted"
    /\ attempt = 2
    /\ RejectedBefore = { 0, 1 }
    /\ LExists(fs, AttemptFile(output_file, 0))
    /\ LExists(fs, AttemptFile(output_file, 1))
    /\ LExists(fs, AttemptFile(output_file, 2))

-----------------------------------------------------------------------------
(* Sleeps and requests of one completion call *)

\* C37, as claimed: in completion every backoff sleep is followed by another
\* request; the client does not sleep after the rate-limit signal of its last
\* permitted attempt, so a call that uses up its attempts sleeps exactly
\* MAX_ATTEMPTS - 1 times.
C37_NoSleepAfterLastAttempt ==
    /\ Len(slept) <= MAX_ATTEMPTS - 1
    /\ pc = "invoke_return" => Len(requests) = Len(slept) + 1

\* C37, amended: in completion every rate-limit signal is followed by a backoff
\* sleep, the signal of the last permitted attempt included; every sleep but
\* that last one is followed by another request with the same messages, so a
\* call that uses up its attempts makes MAX_ATTEMPTS requests and sleeps
\* exactly MAX_ATTEMPTS times, the last time for BASE_WAIT *
\* EXPONENTIAL_FACTOR^(MAX_ATTEMPTS - 1) seconds.
C37_SleepAfterEverySignal ==
    /\ pc = "completion" =>
          /\ Len(requests) = llm_attempt /\ Len(slept) = llm_attempt
          /\ llm_attempt <= MAX_ATTEMPTS
    /\ pc = "invoke_return" =>
          /\ \A i \in 1..Len(requests) : requests[i] = messages
          /\ \/ /\ Len(slept) < MAX_ATTEMPTS
                /\ Len(requests) = Len(slept) + 1
             \/ /\ Len(slept) = MAX_ATTEMPTS
                /\ Len(requests) = MAX_ATTEMPTS
                /\ slept[MAX_ATTEMPTS] = BASE_WAIT * Pow(EXPONENTIAL_FACTOR, MAX_ATTEMPTS - 1)
                /\ content = None

C37_Witness ==
    /\ pc = "invoke_return"
    /\ Len(requests) = MAX_ATTEMPTS
    /\ Len(slept) = MAX_ATTEMPTS
    /\ content = None

-----------------------------------------------------------------------------
(* The syntax repair: fix/fix_def.py.  Here a text is a sequence of lexemes:  *)
(* a word such as "NETS" or "R0" is one element, and so is every character    *)
(* that is no part of a word.                                                 *)

\* BLOCK_RE
BLOCK_RE ==
    { "COMPONENTS", "FILLS", "GROUPS", "NETS", "NONDEFAULTRULES", "PINS", "PINPROPERTIES",
      "PROPERTYDEFINITIONS", "REGIONS", "SCANCHAINS", "SPECIALNETS", "VIAS" }

\* the lexemes that \w+ matches as a whole
WordLexemes ==
    BLOCK_RE \cup { "END", "UNITS", "WIDTH", "R0", "R180", "R90", "MY", "MX", "MX90", "MY90",
                    "N", "S", "W", "E", "FN", "FS", "FW", "FE" }

\* \w and \s on a lexeme
IsWord(t) == t \in WordLexemes
IsSpace(t) == t \in { " ", "\n" }

\* ^ under re.MULTILINE, at the position before lexeme i
AtLineStart(text, i) == i = 1 \/ text[i - 1] = "\n"

\* the literal lit stands at position i
IsLit(text, i, lit) ==
    i + Len(lit) - 1 <= Len(text) /\ SubSeq(text, i, i + Len(lit) - 1) = lit

\* what pattern.subn returns: (new_string, number_of_subs_made)
SubnResult(text, n) == [code |-> text, subs |-> n]

RECURSIVE DropLine(_)
\* .*? up to $: the rest of the line, the newline left in place
DropLine(text) == IF text = << >> \/ Head(text) = "\n" THEN text ELSE DropLine(Tail(text))

RECURSIVE RemoveComments(_)
\* r"#.*?$" with re.MULTILINE, replaced by ""
RemoveComments(text) ==
    IF text = << >> THEN SubnResult(<< >>, 0)
    ELSE IF Head(text) = "#"
         THEN LET r == RemoveComments(DropLine(Tail(text))) IN SubnResult(r.code, r.subs + 1)
         ELSE LET r == RemoveComments(Tail(text))
              IN  SubnResult(<< Head(text) >> \o r.code, r.subs)

RECURSIVE RemoveLiteral(_, _)
\* a pattern that is a literal, replaced by "": the matches from the left, none
\* overlapping another
RemoveLiteral(text, lit) ==
    IF Len(text) < Len(lit) THEN SubnResult(text, 0)
    ELSE IF IsLit(text, 1, lit)
         THEN LET r == RemoveLiteral(SubSeq(text, Len(lit) + 1, Len(text)), lit)
              IN  SubnResult(r.code, r.subs + 1)
         ELSE LET r == RemoveLiteral(Tail(text), lit)
              IN  SubnResult(<< Head(text) >> \o r.code, r.subs)

\* ^\s*(WORD) under re.MULTILINE: the pairs of the position p where a match can
\* start and the position n of the word, for the words given
BlockStarts(text, words) ==
    { pn \in (1..Len(text)) \X (1..Len(text)) :
        /\ pn[1] <= pn[2]
        /\ text[pn[2]] \in words
        /\ AtLineStart(text, pn[1])
        /\ \A j \in pn[1]..(pn[2] - 1) : IsSpace(text[j]) }

\* the leftmost of a set of starts that is not empty
Leftmost(starts) == CHOOSE pn \in starts : \A other \in starts : pn[1] <= other[1]

Last(positions) == CHOOSE q \in positions : \A other \in positions : other <= q

\* the positions after n of a WIDTH that an "END block" follows
WidthsOf(text, n, block) ==
    { w \in (n + 1)..Len(text) :
        /\ text[w] = "WIDTH"
        /\ \E e \in (w + 1)..Len(text) : IsLit(text, e, << "END", " ", block >>) }

\* r"^\s*(NETS.*)WIDTH(?:\s+\d+)?(.*END NETS)" and the same for SPECIALNETS,
\* with re.DOTALL | re.MULTILINE, replaced by r"\1\2": one match at most, which
\* ends at the last END; both .* are greedy, so the last WIDTH goes, with the
\* white space before the block.  The texts of the model hold no digit.
RemoveWidth(text, block) ==
    LET hits == { pn \in BlockStarts(text, { block }) : WidthsOf(text, pn[2], block) # {} }
    IN  IF hits = {} THEN SubnResult(text, 0)
        ELSE LET p == Leftmost(hits)[1]
                 n == Leftmost(hits)[2]
                 w == Last(WidthsOf(text, n, block))
             IN  SubnResult(SubSeq(text, 1, p - 1) \o SubSeq(text, n, w - 1)
                               \o SubSeq(text, w + 1, Len(text)), 1)

\* \b on either side of lexeme i
WholeWord(text, i) ==
    /\ i = 1 \/ ~IsWord(text[i - 1])
    /\ i = Len(text) \/ ~IsWord(text[i + 1])

\* r"\bWORD\b" replaced by another word
ReplaceWord(text, word, new) ==
    LET hit(i) == text[i] = word /\ WholeWord(text, i)
    IN  SubnResult([i \in 1..Len(text) |-> IF hit(i) THEN new ELSE text[i]],
                   Cardinality({ i \in 1..Len(text) : hit(i) }))

IsParen(t) == t \in { "(", ")" }

\* r"\b([()])" replaced by r" \1"
SpaceBeforeParen(text) ==
    LET hit(i) == IsParen(text[i]) /\ i > 1 /\ IsWord(text[i - 1])
    IN  SubnResult(Flatten([i \in 1..Len(text) |->
                               IF hit(i) THEN << " ", text[i] >> ELSE << text[i] >>]),
                   Cardinality({ i \in 1..Len(text) : hit(i) }))

\* r"([()])\b" replaced by r"\1 "
SpaceAfterParen(text) ==
    LET hit(i) == IsParen(text[i]) /\ i < Len(text) /\ IsWord(text[i + 1])
    IN  SubnResult(Flatten([i \in 1..Len(text) |->
                               IF hit(i) THEN << text[i], " " >> ELSE << text[i] >>]),
                   Cardinality({ i \in 1..Len(text) : hit(i) }))

\* .*^\s*(?=BLOCK_RE) after the block at n: the positions of a block word that
\* only white space parts from the start of its line
NextBlocks(text, n) ==
    { q \in (n + 1)..Len(text) :
        /\ text[q] \in BLOCK_RE
        /\ \E r \in (n + 1)..q :
              AtLineStart(text, r) /\ \A j \in r..(q - 1) : IsSpace(text[j]) }

\* rf"^\s*({BLOCK_RE})(?!.*END \1)(.*^\s*(?={BLOCK_RE}))" with re.DOTALL |
\* re.MULTILINE, replaced by r"\1\2END \1\n": a block with no END after it gets
\* one before the last block that follows; one match at most
MissingEnd(text) ==
    LET hits == { pn \in BlockStarts(text, BLOCK_RE) :
                    /\ ~\E e \in (pn[2] + 1)..Len(text) :
                          IsLit(text, e, << "END", " ", text[pn[2]] >>)
                    /\ NextBlocks(text, pn[2]) # {} }
    IN  IF hits = {} THEN SubnResult(text, 0)
        ELSE LET p == Leftmost(hits)[1]
                 n == Leftmost(hits)[2]
                 q == Last(NextBlocks(text, n))
             IN  SubnResult(SubSeq(text, 1, p - 1) \o SubSeq(text, n, q - 1)
                               \o << "END", " ", text[n], "\n" >>
                               \o SubSeq(text, q, Len(text)), 1)

\* a rule of the list: what it does, and the words it is about
Rule(op, a, b) == [op |-> op, a |-> a, b |-> b]

\* a rule whose pattern needs a lexeme that no text of the model holds
Absent(lexeme) == Rule("absent", lexeme, "")

\* REPLACEMENTS, in the order of the list
REPLACEMENTS ==
    << Rule("comments", "#", ""),
       Absent("digit"),                      \* UNITS ... (\d+)
       Rule("literal", "END UNITS", ""),
       Absent("digit"),                      \* BLOCK (\d)
       Absent("VIAS"),
       Absent("ANTENNA"),
       Absent("PINS"),
       Absent("MUSTJOIN"),
       Absent("PINS"),
       Rule("width", "SPECIALNETS", ""),
       Rule("width", "NETS", ""),
       Absent("digit"),                      \* PLACED|FIXED|COVER (\d+) (\d+)
       Absent("ROW"),
       Absent("ROW"),
       Absent("digit"),                      \* NETS ... (\w+)\s+\d+
       Absent("PROPERTYDEFINITIONS"),
       Rule("word", "R0", "N"),
       Rule("word", "R180", "S"),
       Rule("word", "R90", "W"),
       Rule("word", "R180", "E"),
       Rule("word", "MY", "FN"),
       Rule("word", "MX", "FS"),
       Rule("word", "MX90", "FW"),
       Rule("word", "MY90", "FE"),
       Absent("PIN"),
       Absent("VIAS"),
       Rule("before_paren", "(", ""),
       Rule("after_paren", "(", ""),
       Rule("missing_end", "END", "") >>

\* pattern.subn(replacement, code) for a rule of the list
Subn(rule, text) ==
    CASE rule.op = "comments" -> RemoveComments(text)
      [] rule.op = "literal" -> RemoveLiteral(text, << "END", " ", "UNITS" >>)
      [] rule.op = "width" -> RemoveWidth(text, rule.a)
      [] rule.op = "word" -> ReplaceWord(text, rule.a, rule.b)
      [] rule.op = "before_paren" -> SpaceBeforeParen(text)
      [] rule.op = "after_paren" -> SpaceAfterParen(text)
      [] rule.op = "missing_end" -> MissingEnd(text)
      [] rule.op = "absent" -> SubnResult(text, 0)

\* a loop that gives every rule one pass
WhileSubs_OnePass(n) == FALSE

\* while subs: the same rule is applied again
WhileSubs(n) == n # 0

(* fix_def: one pass of the while loop, code, subs = pattern.subn(...); when   *)
(* subs is 0 the for loop goes to the next rule                               *)
FixSubn ==
    /\ pc = "fix_def"
    /\ fix.rule <= Len(REPLACEMENTS)
    /\ LET r == Subn(REPLACEMENTS[fix.rule], fix.code)
       IN  fix' = [fix EXCEPT !.code = r.code, !.subs = r.subs,
                              !.rule = IF WhileSubs(r.subs) THEN @ ELSE @ + 1]
    /\ UNCHANGED << mode, max_retries, report, run, openroad, texts, command, argv,
                    raw_data, kept, sanitized, pc, exc, exit_code, fs, idle, checker, checker_env >>

(* fix_def: the list is used up, return code *)
FixReturn ==
    /\ pc = "fix_def"
    /\ fix.rule > Len(REPLACEMENTS)
    /\ pc' = "fix_done"
    /\ UNCHANGED << inputs, exc, exit_code, fs, idle, checker, checker_env >>

NextFix == FixSubn \/ FixReturn

\* the pieces the texts given to fix_def are made of
Fragments ==
    { << "#" >>, << "\n" >>, << "END" >>, << "END", " ", "UNITS" >>, << " ", "UNITS" >>,
      << "NETS" >>, << "NETS", "WIDTH" >>, << "WIDTH" >>, << "END", " ", "NETS" >>,
      << "R0" >>, << "(" >> }

MaxFragments == 3

FixTexts ==
    UNION { { Flatten(pieces) : pieces \in [1..k -> Fragments] } : k \in 0..MaxFragments }

InitFix ==
    /\ mode = "file" /\ max_retries = 0
    /\ command = "seed" /\ argv = DefaultSeedArgs
    /\ raw_data = ReportA /\ report = parse_coverage(ReportA)
    /\ kept = NoFiles
    /\ fs = OnlyA /\ openroad = TRUE /\ texts = {}
    /\ run = 1 /\ exc = "none" /\ exit_code = -1
    /\ targets = << >> /\ ti = 1 /\ success = 0 /\ failure = 0 /\ skipped = 0
    /\ accepted = {}
    /\ AgentIdle
    /\ pc = "fix_def"
    /\ sanitized = NoName
    /\ \E t \in FixTexts : fix = [input |-> t, code |-> t, rule |-> 1, subs |-> 1]

\* fix_def is a function that runs on its own: its steps are taken
SpecFix == InitFix /\ [][NextFix]_vars /\ WF_vars(NextFix)

-----------------------------------------------------------------------------
(* The rules of fix_def *)

\* a step of the loops of fix_def
FixStep == fix' # fix

\* C38: fix_def applies the replacement rules strictly in the order of the
\* list, repeats each rule until it makes zero substitutions before it moves
\* to the next rule, never returns to an earlier rule, and terminates on every
\* input.
C38_RulesInOrderToFixpoint ==
    /\ [][FixStep =>
            /\ fix'.rule \in { fix.rule, fix.rule + 1 }
            /\ fix'.rule = fix.rule => fix'.subs > 0
            /\ fix'.rule = fix.rule + 1 =>
                  /\ fix'.subs = 0
                  /\ fix'.code = fix.code
                  /\ Subn(REPLACEMENTS[fix.rule], fix'.code).subs = 0]_vars
    /\ [](pc = "fix_done" => fix.rule = Len(REPLACEMENTS) + 1)
    /\ <>(pc = "fix_done")

\* both WIDTHs of a NETS block are gone, one per pass of the rule
C38_Witness ==
    /\ pc = "fix_done"
    /\ fix.input = << "NETS", "WIDTH", "WIDTH", "END", " ", "NETS" >>
    /\ fix.code = << "NETS", "END", " ", "NETS" >>

-----------------------------------------------------------------------------
(* The file names of function targets: sanitize_filename of gen_seed.py *)

(* sanitize_filename(name), called on a name *)
SanitizeCall ==
    /\ pc = "sanitize"
    /\ sanitized' = [sanitized EXCEPT !.s = sanitize_filename(sanitized.name)]
    /\ pc' = "sanitized"
    /\ UNCHANGED << mode, max_retries, report, run, openroad, texts, command, argv,
                    raw_data, kept, fix, exc, exit_code, fs, idle, checker, checker_env >>

(* sanitize_filename(s), called on the result of the first call *)
SanitizeAgain ==
    /\ pc = "sanitized"
    /\ sanitized' = [sanitized EXCEPT !.again = sanitize_filename(sanitized.s)]
    /\ pc' = "sanitized_again"
    /\ UNCHANGED << mode, max_retries, report, run, openroad, texts, command, argv,
                    raw_data, kept, fix, exc, exit_code, fs, idle, checker, checker_env >>

NextSanitize == SanitizeCall \/ SanitizeAgain

\* the characters the ends of a name are made of: a letter, an underscore, a
\* hyphen and two characters that are neither word characters nor hyphens
NameChars == { "a", "_", "-", "(", " " }

MaxAffix == 2

Affixes == UNION { [1..n -> NameChars] : n \in 0..MaxAffix }

\* n times the character c
Pad(c, n) == [i \in 1..n |-> c]

\* the middle of a name: nothing, or a run that brings the name to the limit
\* of MAX_FILENAME_LENGTH; a run of letters stays, a run of parentheses
\* collapses
Pads ==
    { Pad(c, n) : c \in { "a", "(" },
                  n \in { 0, MAX_FILENAME_LENGTH - 2, MAX_FILENAME_LENGTH - 1 } }

Names == { h \o m \o t : h \in Affixes, m \in Pads, t \in Affixes }

InitSanitize ==
    /\ mode = "function" /\ max_retries = 0
    /\ command = "seed" /\ argv = DefaultSeedArgs
    /\ raw_data = ReportA /\ report = parse_coverage(ReportA)
    /\ kept = NoFiles
    /\ fs = OnlyA /\ openroad = TRUE /\ texts = {}
    /\ run = 1 /\ exc = "none" /\ exit_code = -1
    /\ targets = << >> /\ ti = 1 /\ success = 0 /\ failure = 0 /\ skipped = 0
    /\ accepted = {}
    /\ AgentIdle
    /\ fix = NoFix
    /\ pc = "sanitize"
    /\ \E n \in Names : sanitized = [name |-> n, s |-> << >>, again |-> << >>]

SpecSanitize == InitSanitize /\ [][NextSanitize]_vars

-----------------------------------------------------------------------------
(* The rules of sanitize_filename *)

\* s is a file name as sanitize_filename makes them
Sanitary(s) ==
    /\ Len(s) <= MAX_FILENAME_LENGTH
    /\ \A i \in 1..Len(s) : s[i] \in WordChars \cup { "-" }
    /\ \A i \in 1..(Len(s) - 1) : ~(s[i] = "_" /\ s[i + 1] = "_")

\* C39: sanitize_filename is idempotent, and for every input its result has
\* length at most MAX_FILENAME_LENGTH = 100, consists only of word characters
\* and hyphens, and contains no two consecutive underscores.
C39_SanitizeIdempotentAndSanitary ==
    /\ MAX_FILENAME_LENGTH = 100
    /\ pc \in { "sanitized", "sanitized_again" } => Sanitary(sanitized.s)
    /\ pc = "sanitized_again" => sanitized.again = sanitized.s

\* a name longer than the limit with a run of characters to replace: it is
\* cut to the limit, and sanitizing the result changes nothing
C39_Witness ==
    /\ pc = "sanitized_again"
    /\ Len(sanitized.name) > MAX_FILENAME_LENGTH
    /\ Len(sanitized.s) = MAX_FILENAME_LENGTH
    /\ \E i \in 1..(Len(sanitized.name) - 1) :
          /\ sanitized.name[i] \notin WordChars \cup { "-" }
          /\ sanitized.name[i + 1] \notin WordChars \cup { "-" }
    /\ sanitized.s[MAX_FILENAME_LENGTH] = "_"
    /\ sanitized.again = sanitized.s

====
